---- MODULE Spec2Model ----
(***************************************************************************)
(* yakvdb: a single-file B-tree key-value store.                           *)
(*                                                                         *)
(* The model follows src/src/disk/block.rs (the slotted page `Block`),     *)
(* src/src/util/bsearch.rs and src/src/disk/file.rs (the `File` engine:    *)
(* page cache, dirty set, free-id heap, and the tree algorithms).          *)
(*                                                                         *)
(* Keys and values are byte strings, modelled as sequences of small        *)
(* naturals and compared lexicographically as Rust compares `&[u8]`.       *)
(* Slot indices are 0-based as in the source.  `None` stands for           *)
(* Option::None of an index, NoKey for Option::None of a key or value.     *)
(***************************************************************************)
EXTENDS Integers, Sequences, FiniteSets, TLC

\* ------------------------------------------------------------------------
\* Program constants
\* ------------------------------------------------------------------------
HEAD == 16
SLOT == 16
ROOT == 1
SPLIT_THRESHOLD == 80
MERGE_THRESHOLD == 20
CACHE_CAP == 32

\* page_bytes handed to File::make
PageBytes == 116

None == -1
NoKey == <<-1>>

\* ------------------------------------------------------------------------
\* Input universe
\* ------------------------------------------------------------------------
\* A padded byte string is its first byte followed by zeroes.
Pad(b, n) == [i \in 1..n |-> IF i = 1 THEN b ELSE 0]

\* Keys of four lengths (1, 10, 19 and 33 bytes) and values of two lengths
\* (1 and 37 bytes): entries between a sixth and a half of the page.
Keys == {Pad(1, 19), <<2>>, <<4>>, Pad(8, 10), Pad(9, 33)}
Vals == {<<1>>, Pad(7, 37)}

\* keys and values of the runs with oversized entries: a key longer than half
\* a page and a value longer than a whole page
LargeKeys == {<<2>>, <<4>>, Pad(6, 60)}
LargeVals == {<<1>>, Pad(7, 37), Pad(3, 120)}
AllKeys == Keys \cup LargeKeys

\* ------------------------------------------------------------------------
\* Evaluation order
\* ------------------------------------------------------------------------
\* The code computes a value once and then uses it: Let([x \in {v} |-> e])
\* is e with x standing for the value of v.
Let(f) == f[CHOOSE x \in DOMAIN f : TRUE]

\* ------------------------------------------------------------------------
\* Byte-string order (Ord for &[u8]): -1 less, 0 equal, 1 greater
\* ------------------------------------------------------------------------
cmp(a, b) ==
    LET n == IF Len(a) < Len(b) THEN Len(a) ELSE Len(b)
        diff == {i \in 1..n : a[i] # b[i]}
    IN IF diff = {}
       THEN (IF Len(a) < Len(b) THEN -1 ELSE IF Len(a) > Len(b) THEN 1 ELSE 0)
       ELSE LET i == CHOOSE d \in diff : \A e \in diff : d <= e
            IN IF a[i] < b[i] THEN -1 ELSE 1

lt(a, b) == cmp(a, b) < 0
gt(a, b) == cmp(a, b) > 0
ge(a, b) == cmp(a, b) >= 0

\* ------------------------------------------------------------------------
\* Block: the slotted page.  A page is [id, cap, slots]; `slots` holds the
\* first len() directory entries, each with the payload it addresses.
\* ------------------------------------------------------------------------
create(id, cap) == [id |-> id, cap |-> cap, slots |-> <<>>]

len(p) == Len(p.slots)

\* Block::slot: None when idx >= len()
has_slot(p, idx) == idx >= 0 /\ idx < len(p)

slot_page(p, idx) == p.slots[idx + 1].page

\* Block::key / Block::val: the empty slice when the slot is missing
key(p, idx) == IF has_slot(p, idx) THEN p.slots[idx + 1].key ELSE <<>>
val(p, idx) == IF has_slot(p, idx) THEN p.slots[idx + 1].val ELSE <<>>

\* Block::min / Block::max. On an empty page max() computes len() - 1 on a
\* u32 zero: built without overflow checks it wraps and key() yields the
\* empty slice, as here; built with them it aborts (see max_trap).
block_min(p) == key(p, 0)
block_max(p) == key(p, len(p) - 1)

\* the smallest offset of the slots, dflt when there is none
min_offset(slots, dflt) ==
    IF slots = <<>> THEN dflt
    ELSE CHOOSE o \in {slots[i].offset : i \in DOMAIN slots} :
            \A j \in DOMAIN slots : o <= slots[j].offset

free(p) ==
    IF len(p) = 0 THEN p.cap - HEAD
    ELSE LET lo == HEAD + len(p) * SLOT
         IN min_offset(p.slots, lo) - lo

full(p) ==
    LET n == p.cap - HEAD
    IN ((n - free(p)) * 100) \div n

\* a fits that leaves the new slot out of the count
fits_payload(p, l) == free(p) >= l

fits(p, l) == free(p) >= l + SLOT

RECURSIVE bsearch(_, _, _, _)
bsearch(k, lo, hi, p) ==
    IF lo < hi
    THEN Let([mid \in {lo + (hi - lo) \div 2} |->
         Let([c \in {cmp(k, key(p, mid))} |->
            IF c < 0 THEN bsearch(k, lo, mid, p)
            ELSE IF c > 0 THEN bsearch(k, mid + 1, hi, p)
            ELSE mid])])
    ELSE lo

find(p, k) ==
    IF len(p) = 0 THEN None
    ELSE Let([i \in {bsearch(k, 0, len(p) - 1, p)} |->
            IF key(p, i) = k THEN i ELSE None])

\* a ceil that asks for a key strictly greater than the probe
ceil_strict(p, k) ==
    IF len(p) = 0 THEN None
    ELSE Let([i \in {bsearch(k, 0, len(p) - 1, p)} |->
            IF gt(key(p, i), k) THEN i ELSE None])

ceil(p, k) ==
    IF len(p) = 0 THEN None
    ELSE Let([i \in {bsearch(k, 0, len(p) - 1, p)} |->
            IF ge(key(p, i), k) THEN i ELSE None])

\* put_size: the directory keeps its first n entries
put_size(p, n) == [p EXCEPT !.slots = SubSeq(@, 1, n)]

\* the payload bytes of the first n slots
RECURSIVE payload(_, _)
payload(slots, n) ==
    IF n = 0 THEN 0
    ELSE Len(slots[n].key) + Len(slots[n].val) + payload(slots, n - 1)

\* the payloads laid out again from `offset` on, in slot order
compact(slots, offset) ==
    [i \in DOMAIN slots |->
        [slots[i] EXCEPT !.offset = offset + payload(slots, i - 1)]]

block_remove(p, idx) ==
    IF idx >= len(p) THEN p
    ELSE Let([slots \in {SubSeq(p.slots, 1, idx) \o SubSeq(p.slots, idx + 2, len(p))} |->
                [p EXCEPT !.slots =
                    compact(slots, p.cap - payload(slots, Len(slots)))]])

\* the directory with `slot` put at index idx
with_slot(p, idx, slot) ==
    [p EXCEPT !.slots = SubSeq(@, 1, idx) \o <<slot>> \o SubSeq(@, idx + 1, Len(@))]

\* a put_entry that appends the slot instead of placing it at ceil(key)
put_entry_last(p, k, v, page) ==
    IF ~fits(p, Len(k) + Len(v)) THEN p
    ELSE Let([c \in {ceil(p, k)} |->
         Let([p1 \in {IF c # None /\ key(p, c) = k
                      THEN block_remove(put_size(p, len(p) - 1), c)
                      ELSE p} |->
            with_slot(p1, len(p1),
                      [offset |-> min_offset(p1.slots, p1.cap) - Len(k) - Len(v),
                       page |-> page, key |-> k, val |-> v])])])

put_entry(p, k, v, page) ==
    IF ~fits(p, Len(k) + Len(v)) THEN p
    ELSE Let([c \in {ceil(p, k)} |->
         Let([p1 \in {IF c # None /\ key(p, c) = k
                      THEN block_remove(put_size(p, len(p) - 1), c)
                      ELSE p} |->
         Let([c1 \in {ceil(p1, k)} |->
            with_slot(p1, IF c1 = None THEN len(p1) ELSE c1,
                      [offset |-> min_offset(p1.slots, p1.cap) - Len(k) - Len(v),
                       page |-> page, key |-> k, val |-> v])])])])

\* what put_entry returns: None, or the index the slot is put at
put_entry_ret(p, k, v) ==
    IF ~fits(p, Len(k) + Len(v)) THEN None
    ELSE Let([c \in {ceil(p, k)} |->
         Let([p1 \in {IF c # None /\ key(p, c) = k
                      THEN block_remove(put_size(p, len(p) - 1), c)
                      ELSE p} |->
         Let([c1 \in {ceil(p1, k)} |->
            IF c1 = None THEN len(p1) ELSE c1])])])

put_val(p, k, v) == put_entry(p, k, v, 0)
put_ref(p, k, page) == put_entry(p, k, <<>>, page)

copy(p) == p.slots

\* a clear that blanks the header along with the slots
clear_anon(p) == [p EXCEPT !.slots = <<>>, !.id = 0]

\* Block::clear: the header keeps id and cap, the slots are dropped
clear(p) == [p EXCEPT !.slots = <<>>]

\* ------------------------------------------------------------------------
\* File: the engine.  A store value `st` carries the fields of File
\* (cache, dirty, empty), the pages of the backing file (disk, indexed by
\* page id), the outcome of the call in progress (res) and its return
\* value (ret).  res is "ok", "panic" (an unwrap on None, the call aborts)
\* or the kind of the typed Err the call returns.
\* ------------------------------------------------------------------------
panic(st) == [st EXCEPT !.res = "panic"]
err(st, kind) == [st EXCEPT !.res = kind]
returns(st, v) == [st EXCEPT !.ret = v]

\* A call of max() on page p that no length test guards. The store goes on as
\* the build without overflow checks does; `trap` keeps the store as the
\* first such call on an empty page found it, which is where the build with
\* overflow checks aborts.
max_trap(st, p) ==
    IF len(p) > 0 \/ st.trap # <<>> THEN st
    ELSE [st EXCEPT !.trap = <<[st EXCEPT !.res = "panic"]>>]

\* `log` keeps what the call in progress did inside, in order: one record
\* per split, merge, page allocation, release and flush
logged(st, e) == [st EXCEPT !.log = Append(@, e)]

\* the outcomes of a call over the builds of the code
builds(s) == {s} \cup {s.trap[i] : i \in DOMAIN s.trap}

\* LruCache::has
has(st, id) == id \in DOMAIN st.cache

\* the slots of page id as the cache of store st holds them
slots_of(st, id) == IF has(st, id) THEN st.cache[id].slots ELSE <<>>

\* File::load succeeds when the page lies inside the file
can_load(st, id) == id \in 1..Len(st.disk)
load(st, id) == st.disk[id]

\* the recency order `lru` lists cached ids, the least recently used first:
\* the order of the op stamps of LruCache
drop_id(q, id) ==
    IF \A i \in DOMAIN q : q[i] # id THEN q
    ELSE Let([p \in {CHOOSE i \in DOMAIN q : q[i] = id} |->
             SubSeq(q, 1, p - 1) \o SubSeq(q, p + 1, Len(q))])

\* the stamp LruCache::get, get_mut and put give the key
touch(q, id) == Append(drop_id(q, id), id)

\* LruCache::lru: None below capacity, else the key with the oldest stamp;
\* File never calls lock, so no key is exempt
lru(st) ==
    IF Cardinality(DOMAIN st.cache) < CACHE_CAP \/ st.lru = <<>> THEN None
    ELSE Head(st.lru)

\* LruCache::evict
evict(st) ==
    Let([k \in {lru(st)} |->
        IF k = None THEN st
        ELSE logged([st EXCEPT !.cache = [x \in DOMAIN @ \ {k} |-> @[x]],
                               !.lru = drop_id(@, k)],
                    [ev |-> "evict", id |-> k, dirty |-> k \in st.dirty])])

\* LruCache::put
cache_put(st, id, p) ==
    Let([s1 \in {evict(st)} |->
        [s1 EXCEPT !.cache = (id :> p) @@ @, !.lru = touch(@, id)]])

\* File::cache and the get or get_mut that File::page and File::page_mut
\* make next
cache_page(st, id) ==
    IF has(st, id) THEN [st EXCEPT !.lru = touch(@, id)]
    ELSE IF can_load(st, id)
         THEN Let([s1 \in {cache_put(st, id, load(st, id))} |->
                 [s1 EXCEPT !.lru = touch(@, id)]])
         ELSE st

\* File::page returns Some
page_ok(st, id) == has(st, id) \/ can_load(st, id)

\* the call waits for a lock that the calling thread holds itself
blocked(st) == [st EXCEPT !.res = "blocked"]

\* File::page called while the caller holds read guards of the pages `held`:
\* a hit takes the cache read lock again; a miss makes File::cache ask for
\* the cache write lock, which waits until every read guard is gone
page_held(st, id, held) ==
    Let([s1 \in {logged(st, [ev |-> "page", id |-> id, held |-> held,
                             load |-> ~has(st, id)])} |->
        IF ~has(s1, id) /\ held # {} THEN blocked(s1)
        ELSE cache_page(s1, id)])

\* a page_mut that leaves the dirty set as it is
mark_none(st, id) == st

mark(st, id) == [st EXCEPT !.dirty = @ \cup {id}]

\* File::page_mut, on an id for which page_ok holds
page_mut(st, id) == mark(cache_page(st, id), id)

root_mut(st) == page_mut(mark(st, ROOT), ROOT)

set_page(st, id, p) == [st EXCEPT !.cache[id] = p]

\* File::save writes the page at offset(page.id())
save(disk, p) == [disk EXCEPT ![p.id] = p]

\* the loop of File::flush: each page is fetched and saved in turn, and the
\* first write that fails ends the loop with the io::Error (`?`); st.io
\* holds the ids of the pages whose write fails
RECURSIVE save_all(_, _)
save_all(st, ids) ==
    IF ids = {} THEN st
    ELSE Let([id \in {CHOOSE i \in ids : \A j \in ids : i <= j} |->
         Let([s1 \in {cache_page(st, id)} |->
            IF id \in s1.io THEN err(s1, "IO")
            ELSE Let([s2 \in {[s1 EXCEPT !.disk = save(@, s1.cache[id])]} |->
                    save_all(s2, ids \ {id})])])])

flush(st) ==
    IF st.res # "ok" THEN st
    ELSE Let([found \in {{id \in st.dirty : page_ok(st, id)}} |->
         Let([s2 \in {save_all([st EXCEPT !.dirty = {}], found)} |->
         Let([s3 \in {logged(s2, [ev |-> "flush", dirty |-> st.dirty,
                                  was |-> [id \in {i \in st.dirty : has(st, i)} |->
                                             st.cache[id]],
                                  disk |-> [id \in found |-> s2.disk[id]],
                                  left |-> s2.dirty])} |->
            IF s2.res # "ok" \/ found = st.dirty THEN s3
            ELSE err(s3, "Missing pages")])])])

RECURSIVE heap_push(_, _)
heap_push(h, id) ==
    IF h = <<>> THEN <<id>>
    ELSE IF id <= Head(h) THEN <<id>> \o h
    ELSE <<Head(h)>> \o heap_push(Tail(h), id)

free_id(st, id) ==
    logged([st EXCEPT !.empty = heap_push(@, id)], [ev |-> "free_id", id |-> id])

\* the page File::page would give, the pages its slots refer to, and the
\* pages reached from the pages S through references
page_of(st, id) == IF has(st, id) THEN st.cache[id] ELSE load(st, id)

children_of(st, id) ==
    {page_of(st, id).slots[i].page : i \in DOMAIN page_of(st, id).slots}
        \cap 1..Len(st.disk)

RECURSIVE closure_of(_, _)
closure_of(st, S) ==
    Let([T \in {S \cup UNION {children_of(st, id) : id \in S}} |->
        IF T = S THEN S ELSE closure_of(st, T)])

\* what a call of next_id saw and left: s is the store before, t after
next_id_event(s, t) ==
    [ev |-> "next_id", heap |-> s.empty, pages |-> Len(s.disk),
     res |-> t.res, ret |-> t.ret, left |-> t.empty, grown |-> Len(t.disk),
     used |-> t.res = "ok" /\ t.ret \in closure_of(s, {ROOT}),
     page |-> IF t.res # "ok" THEN <<>>
              ELSE IF has(t, t.ret) THEN t.cache[t.ret]
              ELSE IF can_load(t, t.ret) THEN load(t, t.ret)
              ELSE <<>>]

\* a next_id that takes the largest free id
next_id_last(st) ==
    IF st.res # "ok" THEN st
    ELSE IF st.empty # <<>>
    THEN LET id == st.empty[Len(st.empty)]
         IN Let([s1 \in {[st EXCEPT !.empty = SubSeq(@, 1, Len(@) - 1)]} |->
               IF ~page_ok(s1, id) THEN panic(s1)
               ELSE Let([s2 \in {returns(set_page(page_mut(s1, id), id,
                                                  create(id, PageBytes)), id)} |->
                       logged(s2, next_id_event(st, s2))])])
    ELSE LET id == 1 + Len(st.disk)
         IN Let([s2 \in {returns([st EXCEPT !.disk = Append(@, create(id, PageBytes))],
                                 id)} |->
               logged(s2, next_id_event(st, s2))])

next_id(st) ==
    IF st.res # "ok" THEN st
    ELSE IF st.empty # <<>>
    THEN LET id == Head(st.empty)
         IN Let([s1 \in {[st EXCEPT !.empty = Tail(@)]} |->
               IF ~page_ok(s1, id) THEN logged(panic(s1), next_id_event(st, panic(s1)))
               ELSE Let([s2 \in {returns(set_page(page_mut(s1, id), id,
                                                  create(id, PageBytes)), id)} |->
                       logged(s2, next_id_event(st, s2))])])
    ELSE LET id == 1 + Len(st.disk)
         IN Let([s2 \in {returns([st EXCEPT !.disk = Append(@, create(id, PageBytes))],
                                 id)} |->
               logged(s2, next_id_event(st, s2))])

\* page.put_val / page.put_ref for each entry of a copy, in order
RECURSIVE put_all(_, _)
put_all(p, entries) ==
    IF entries = <<>> THEN p
    ELSE Let([e \in {Head(entries)} |->
         Let([p1 \in {IF e.page = 0 THEN put_val(p, e.key, e.val)
                      ELSE put_ref(p, e.key, e.page)} |->
            put_all(p1, Tail(entries))])])

\* the removal loop of the non-root split: find(key).unwrap() then remove;
\* the result is <<page, every find succeeded>>
RECURSIVE remove_all(_, _)
remove_all(p, entries) ==
    IF entries = <<>> THEN <<p, TRUE>>
    ELSE Let([idx \in {find(p, Head(entries).key)} |->
            IF idx = None THEN <<p, FALSE>>
            ELSE Let([p1 \in {block_remove(p, idx)} |->
                    remove_all(p1, Tail(entries))])])

check(st, parent_id, page_id) ==
    IF st.res # "ok" THEN st
    ELSE IF ~page_ok(st, page_id) THEN panic(st)
    ELSE Let([s0 \in {cache_page(st, page_id)} |->
         Let([s1 \in {max_trap(s0, s0.cache[page_id])} |->
         IF ~page_ok(s1, parent_id) THEN panic(s1)
         ELSE Let([s2 \in {cache_page(s1, parent_id)} |->
              Let([page_max \in {block_max(s2.cache[page_id])} |->
              Let([page_idx \in {find(s2.cache[parent_id], page_max)} |->
                 IF page_idx = None THEN panic(s2)
                 ELSE IF key(s2.cache[parent_id], page_idx) # page_max
                      THEN err(s2, "Parent entry key does not match child page")
                 ELSE IF slot_page(s2.cache[parent_id], page_idx) # page_id
                      THEN err(s2, "Parent entry ref does not match child page")
                 ELSE s2])])])])])

\* the root split, after both ids are allocated: s2 is the store, cp the
\* copy of the root's entries
split_root_put(s2, id, lo_id, hi_id, cp) ==
    LET half == Len(cp) \div 2
    IN IF half = 0 THEN panic(s2)
       ELSE IF ~page_ok(s2, lo_id) THEN panic(s2)
       ELSE Let([s4 \in {page_mut(s2, lo_id)} |->
            Let([lo \in {put_all(s4.cache[lo_id], SubSeq(cp, 1, half))} |->
            Let([s5 \in {set_page(s4, lo_id, lo)} |->
               IF ~page_ok(s5, hi_id) THEN panic(s5)
               ELSE Let([s6 \in {page_mut(s5, hi_id)} |->
                    Let([hi \in {put_all(s6.cache[hi_id], SubSeq(cp, half + 1, Len(cp)))} |->
                    Let([s8 \in {page_mut(set_page(s6, hi_id, hi), id)} |->
                    Let([root1 \in {put_ref(clear(s8.cache[id]), cp[half].key, lo_id)} |->
                    Let([root2 \in {put_ref(root1, cp[Len(cp)].key, hi_id)} |->
                       set_page(s8, id, root2)])])])])])])])])

split_root(st, id) ==
    Let([s1 \in {next_id(st)} |->
    Let([s2 \in {next_id(s1)} |->
       IF s2.res # "ok" THEN s2
       ELSE IF ~page_ok(s2, id) THEN panic(s2)
       ELSE Let([s3 \in {cache_page(s2, id)} |->
            Let([s9 \in {split_root_put(s3, id, s1.ret, s2.ret, copy(s3.cache[id]))} |->
               logged(s9, [ev |-> "split", id |-> id, parent |-> id,
                           lo_id |-> s1.ret, hi_id |-> s2.ret, res |-> s9.res,
                           was |-> copy(s3.cache[id]),
                           lo |-> slots_of(s9, s1.ret),
                           hi |-> slots_of(s9, s2.ret),
                           up |-> slots_of(s9, id)])])])])])

\* the non-root split, after the peer id is allocated: the upper half moves
\* to the peer and the parent's entry for `max` is replaced by two
split_peer_put(s2, id, parent_id, peer_id, upper, max) ==
    Let([s3 \in {page_mut(s2, id)} |->
    Let([rm \in {remove_all(s3.cache[id], upper)} |->
    Let([s4 \in {IF rm[2] THEN max_trap(set_page(s3, id, rm[1]), rm[1])
                  ELSE set_page(s3, id, rm[1])} |->
       IF ~rm[2] THEN panic(s4)
       ELSE IF ~page_ok(s4, peer_id) THEN panic(s4)
       ELSE Let([s5 \in {page_mut(s4, peer_id)} |->
            Let([peer \in {put_all(s5.cache[peer_id], upper)} |->
            Let([s6 \in {set_page(s5, peer_id, peer)} |->
               IF ~page_ok(s6, parent_id) THEN panic(s6)
               ELSE Let([s7 \in {page_mut(s6, parent_id)} |->
                    Let([idx \in {find(s7.cache[parent_id], max)} |->
                       IF idx = None THEN panic(s7)
                       ELSE Let([pa0 \in {block_remove(s7.cache[parent_id], idx)} |->
                            Let([pa1 \in {put_ref(pa0, block_max(rm[1]), id)} |->
                            Let([pa2 \in {put_ref(pa1, block_max(peer), peer_id)} |->
                            Let([s9 \in {check(set_page(s7, parent_id, pa2), parent_id, id)} |->
                               check(s9, parent_id, peer_id)])])])])])])])])])])])])

split_peer(st, id, parent_id) ==
    IF ~page_ok(st, id) THEN panic(st)
    ELSE Let([s1 \in {cache_page(st, id)} |->
         Let([cp \in {copy(s1.cache[id])} |->
         Let([s2 \in {next_id(s1)} |->
            IF s2.res # "ok" THEN s2
            ELSE Let([s9 \in {split_peer_put(s2, id, parent_id, s2.ret,
                                 SubSeq(cp, Len(cp) \div 2 + 1, Len(cp)),
                                 block_max(s1.cache[id]))} |->
                    logged(s9, [ev |-> "split", id |-> id, parent |-> parent_id,
                                lo_id |-> id, hi_id |-> s2.ret, res |-> s9.res,
                                was |-> cp,
                                lo |-> slots_of(s9, id),
                                hi |-> slots_of(s9, s2.ret),
                                up |-> slots_of(s9, parent_id)])])])])])

split(st, id, parent_id) ==
    IF st.res # "ok" THEN st
    ELSE IF id = ROOT THEN split_root(st, id)
    ELSE split_peer(st, id, parent_id)

merge(st, src_id, dst_id) ==
    IF st.res # "ok" THEN st
    ELSE IF ~page_ok(st, src_id) THEN panic(st)
    ELSE Let([s1 \in {cache_page(st, src_id)} |->
         IF ~page_ok(s1, dst_id) THEN panic(s1)
         ELSE Let([s2 \in {page_mut(s1, dst_id)} |->
              Let([dst \in {put_all(s2.cache[dst_id], copy(s2.cache[src_id]))} |->
              Let([s4 \in {page_mut(set_page(s2, dst_id, dst), src_id)} |->
                 free_id(set_page(s4, src_id, clear(s4.cache[src_id])), src_id)])])])])

\* ------------------------------------------------------------------------
\* Store operations on File
\* ------------------------------------------------------------------------
path_last(path) == path[Len(path)]
path_init(path) == SubSeq(path, 1, Len(path) - 1)

\* a descent that takes a page it has visited for a page without the key
RECURSIVE lookup_loop_blind(_, _, _, _)
lookup_loop_blind(st, id, seen, k) ==
    Let([idx \in {ceil(st.cache[id], k)} |->
       IF idx = None THEN returns(st, NoKey)
       ELSE IF ~has_slot(st.cache[id], idx) THEN err(st, "Slot not found")
       ELSE IF slot_page(st.cache[id], idx) = 0
            THEN returns(st, IF k = key(st.cache[id], idx)
                             THEN val(st.cache[id], idx) ELSE NoKey)
       ELSE Let([child \in {slot_page(st.cache[id], idx)} |->
               IF child \in seen THEN returns(st, NoKey)
               ELSE IF ~page_ok(st, child) THEN err(st, "Page not found")
               ELSE Let([s1 \in {cache_page(st, child)} |->
                       lookup_loop_blind(s1, child, seen \cup {id}, k)])])])

\* File::lookup: the descent loop, entered with page `id` cached
RECURSIVE lookup_loop(_, _, _, _)
lookup_loop(st, id, seen, k) ==
    Let([idx \in {ceil(st.cache[id], k)} |->
       IF idx = None THEN returns(st, NoKey)
       ELSE IF ~has_slot(st.cache[id], idx) THEN err(st, "Slot not found")
       ELSE IF slot_page(st.cache[id], idx) = 0
            THEN returns(st, IF k = key(st.cache[id], idx)
                             THEN val(st.cache[id], idx) ELSE NoKey)
       ELSE Let([child \in {slot_page(st.cache[id], idx)} |->
               IF child \in seen THEN err(st, "Cyclic reference detected")
               ELSE IF ~page_ok(st, child) THEN err(st, "Page not found")
               ELSE Let([s1 \in {cache_page(st, child)} |->
                       lookup_loop(s1, child, seen \cup {id}, k)])])])

lookup(st, k) ==
    IF ~page_ok(st, ROOT) THEN panic(st)
    ELSE Let([s1 \in {cache_page(st, ROOT)} |-> lookup_loop(s1, ROOT, {}, k)])

\* an insert that examines no page above the leaf
split_path_none(st, path) == st

\* the `while !path.is_empty()` loop of File::insert
RECURSIVE split_path(_, _)
split_path(st, path) ==
    IF st.res # "ok" \/ path = <<>> THEN st
    ELSE LET page_id == path_last(path)[1]
             rest == path_init(path)
             parent_id == IF rest = <<>> THEN 0 ELSE path_last(rest)[1]
         IN IF ~page_ok(st, page_id) THEN panic(st)
            ELSE Let([s0 \in {cache_page(st, page_id)} |->
                 Let([s1 \in {logged(s0, [ev |-> "full", id |-> page_id,
                                          full |-> full(s0.cache[page_id])])} |->
                 Let([s2 \in {IF full(s1.cache[page_id]) > SPLIT_THRESHOLD
                     THEN split(s1, page_id, parent_id)
                     ELSE s1} |->
                    split_path(s2, rest)])])])

\* a descent that never raises the separator of the chosen child
put_parent_keep(st, path, k, id) ==
    IF path = <<>> THEN st
    ELSE IF ~page_ok(st, path_last(path)[1]) THEN panic(st)
    ELSE page_mut(st, path_last(path)[1])

\* File::insert, before the descent goes on: the separator of the chosen
\* child is rewritten when the key exceeds it
put_parent(st, path, k, id) ==
    IF path = <<>> THEN st
    ELSE LET parent_id == path_last(path)[1]
             parent_idx == path_last(path)[2]
         IN IF ~page_ok(st, parent_id) THEN panic(st)
            ELSE Let([s \in {page_mut(st, parent_id)} |->
                    IF gt(k, key(s.cache[parent_id], parent_idx))
                    THEN Let([parent_page \in {block_remove(s.cache[parent_id], parent_idx)} |->
                         Let([parent1 \in {put_ref(parent_page, k, id)} |->
                            set_page(s, parent_id, parent1)])])
                    ELSE s])

\* File::insert at a leaf slot: put, split the leaf and the path, flush
put_leaf(st, id, path, k, v) ==
    IF ~fits(st.cache[id], Len(k) + Len(v)) THEN err(st, "Entry does not fit")
    ELSE Let([page \in {put_val(st.cache[id], k, v)} |->
         Let([s3 \in {logged(set_page(st, id, page),
                             [ev |-> "full", id |-> id, full |-> full(page)])} |->
         Let([s4 \in {IF full(page) > SPLIT_THRESHOLD
             THEN split(s3, id, IF path = <<>> THEN 0 ELSE path_last(path)[1])
             ELSE s3} |->
         Let([s5 \in {split_path(s4, path)} |->
            flush(s5)])])])])

\* File::insert: the slot the key goes to in a page that is not empty
insert_idx(p, k) ==
    Let([c \in {ceil(p, k)} |-> IF c = None THEN len(p) - 1 ELSE c])

RECURSIVE insert_loop(_, _, _, _, _, _)

\* where the loop of File::insert stands: it has returned (leaf 0), or it
\* has reached a value slot of the page `leaf` along `path`
returned(st) == [st |-> st, leaf |-> 0, path |-> <<>>]
at_leaf(st, id, path) == [st |-> st, leaf |-> id, path |-> path]

\* File::insert: one turn of the loop from `drop(page)` on, once idx is
\* chosen and the borrow of page `id` is given up
RECURSIVE insert_at(_, _, _, _, _, _, _)
insert_at(st, id, path, seen, k, v, idx) ==
    Let([s1 \in {put_parent(st, path, k, id)} |->
       IF s1.res # "ok" THEN returned(s1)
       ELSE IF ~page_ok(s1, id) THEN returned(panic(s1))
       ELSE Let([s2 \in {page_mut(s1, id)} |->
               IF ~has_slot(s2.cache[id], idx)
               THEN returned(err(s2, "Slot not found"))
               ELSE IF slot_page(s2.cache[id], idx) = 0
               THEN at_leaf(s2, id, path)
               ELSE Let([child \in {slot_page(s2.cache[id], idx)} |->
                       IF child \in seen \cup {id}
                       THEN returned(err(s2, "Cyclic reference detected"))
                       ELSE IF ~page_ok(s2, child)
                       THEN returned(err(s2, "Page not found"))
                       ELSE Let([s3 \in {logged(page_mut(s2, child),
                                           [ev |-> "down", id |-> id, child |-> child])} |->
                               insert_loop(s3, child, Append(path, <<id, idx>>),
                                           seen \cup {id}, k, v)])])])])

\* File::insert: the descent loop, entered with page `id` held mutably
insert_loop(st, id, path, seen, k, v) ==
    IF len(st.cache[id]) = 0
    THEN IF ~fits(st.cache[id], Len(k) + Len(v))
         THEN returned(err(st, "Entry does not fit"))
         ELSE Let([page \in {put_val(st.cache[id], k, v)} |->
                 returned(set_page(st, id, page))])
    ELSE Let([idx \in {insert_idx(st.cache[id], k)} |->
            insert_at(st, id, path, seen, k, v, idx)])

\* File::insert: the branch of the value slot, once the loop has reached it
insert_end(d, k, v) ==
    IF d.leaf = 0 THEN d.st ELSE put_leaf(d.st, d.leaf, d.path, k, v)

insert(st, k, v) ==
    IF ~page_ok(st, ROOT) THEN panic(st)
    ELSE Let([s1 \in {root_mut(st)} |->
         Let([d \in {insert_loop(s1, ROOT, <<>>, {}, k, v)} |->
            insert_end(d, k, v)])])

\* the peers considered by File::remove, left neighbour first
peers_of(parent, idx) ==
    (IF idx > 0 THEN <<slot_page(parent, idx - 1)>> ELSE <<>>)
    \o (IF idx < len(parent) - 1 THEN <<slot_page(parent, idx + 1)>> ELSE <<>>)

RECURSIVE cache_seq(_, _)
cache_seq(st, ids) ==
    IF ids = <<>> THEN st
    ELSE Let([s1 \in {cache_page(st, Head(ids))} |-> cache_seq(s1, Tail(ids))])

\* a choice of the first eligible peer, whatever the fullness of the next
RECURSIVE pick_peer_first(_, _, _)
pick_peer_first(st, peers, best) ==
    IF peers = <<>> THEN best
    ELSE Let([fl \in {full(st.cache[Head(peers)])} |->
         Let([best1 \in {IF len(st.cache[Head(peers)]) > 0 /\ fl < MERGE_THRESHOLD
                /\ best = None
             THEN Head(peers) ELSE best} |->
            pick_peer_first(st, Tail(peers), best1)])])

\* filter_map + min_by_key: the first of the least full eligible peers
RECURSIVE pick_peer(_, _, _)
pick_peer(st, peers, best) ==
    IF peers = <<>> THEN best
    ELSE Let([fl \in {full(st.cache[Head(peers)])} |->
         Let([best1 \in {IF len(st.cache[Head(peers)]) > 0 /\ fl < MERGE_THRESHOLD
                /\ (best = None \/ fl < full(st.cache[best]))
             THEN Head(peers) ELSE best} |->
            pick_peer(st, Tail(peers), best1)])])

\* what the merge branch of File::remove yields: the store, the page the
\* ascent continues from and its index in the parent
merged(st, page_id, idx) == [st |-> st, page_id |-> page_id, idx |-> idx]

\* the merge branch of File::remove once a peer is chosen (lines 394-428)
merge_peer(st, page_id, parent_id, idx, peer_id) ==
    Let([peer_max \in {block_max(st.cache[peer_id])} |->
    Let([s3 \in {page_mut(st, parent_id)} |->
    Let([parent1 \in {block_remove(s3.cache[parent_id], idx)} |->
    Let([peer_idx \in {ceil(parent1, peer_max)} |->
       IF peer_idx = None
       THEN Let([s \in {set_page(s3, parent_id, parent1)} |->
               merged(panic(s), page_id, idx)])
       ELSE Let([parent2 \in {block_remove(parent1, peer_idx)} |->
            Let([s4 \in {set_page(s3, parent_id, parent2)} |->
            Let([s5 \in {merge(s4, page_id, peer_id)} |->
               IF s5.res # "ok" THEN merged(s5, page_id, idx)
               ELSE Let([page_max \in {block_max(s5.cache[peer_id])} |->
                    Let([s6 \in {page_mut(s5, parent_id)} |->
                    Let([parent3 \in {put_ref(s6.cache[parent_id], page_max, peer_id)} |->
                    Let([s7 \in {set_page(s6, parent_id, parent3)} |->
                    Let([idx2 \in {ceil(parent3, page_max)} |->
                       IF idx2 = None THEN merged(panic(s7), page_id, idx)
                       ELSE merged(s7, peer_id, idx2)])])])])])])])])])])])])

\* what one merge of File::remove saw and left: s is the store when the peer
\* was chosen, t the store when the merge branch ends
merge_event(s, t, page_id, parent_id, idx, peer_id, peers) ==
    [ev |-> "merge", src |-> page_id, dst |-> peer_id, parent |-> parent_id,
     idx |-> idx, res |-> t.res,
     src_full |-> full(s.cache[page_id]),
     near |-> [i \in DOMAIN peers |->
                 [id |-> peers[i], len |-> len(s.cache[peers[i]]),
                  full |-> full(s.cache[peers[i]])]],
     before |-> slots_of(s, parent_id),
     after |-> slots_of(t, parent_id),
     src_after |-> slots_of(t, page_id),
     dst_after |-> slots_of(t, peer_id),
     heap |-> t.empty]

\* the merge branch of File::remove (lines 366-429)
merge_step(st, page_id, parent_id, idx) ==
    IF ~page_ok(st, parent_id) THEN merged(panic(st), page_id, idx)
    ELSE Let([s1 \in {cache_page(st, parent_id)} |->
            IF \/ len(s1.cache[parent_id]) = 0
               \/ (idx > 0 /\ ~has_slot(s1.cache[parent_id], idx - 1))
            THEN merged(panic(s1), page_id, idx)
            ELSE Let([peers \in {peers_of(s1.cache[parent_id], idx)} |->
                    IF \E i \in 1..Len(peers) : ~page_ok(s1, peers[i])
                    THEN merged(panic(s1), page_id, idx)
                    ELSE Let([s2 \in {cache_seq(s1, peers)} |->
                         Let([peer_id \in {pick_peer(s2, peers, None)} |->
                            IF peer_id = None THEN merged(s2, page_id, idx)
                            ELSE Let([m \in {merge_peer(s2, page_id, parent_id, idx, peer_id)} |->
                                    merged(logged(m.st, merge_event(s2, m.st, page_id, parent_id,
                                                                    idx, peer_id, peers)),
                                           m.page_id, m.idx)])])])])])

\* a parent that keeps the reference to a page remove has emptied
put_max_keep(parent, page, page_id, idx) ==
    IF len(page) > 0
    THEN Let([max_key \in {block_max(page)} |->
            IF lt(max_key, key(parent, idx))
            THEN Let([parent1 \in {block_remove(parent, idx)} |->
                    put_ref(parent1, max_key, page_id)])
            ELSE parent])
    ELSE parent

\* lines 431-449 of File::remove: the parent's reference to the page follows
\* the page's max key, or goes when the page is empty
put_max(parent, page, page_id, idx) ==
    IF len(page) > 0
    THEN Let([max_key \in {block_max(page)} |->
            IF lt(max_key, key(parent, idx))
            THEN Let([parent1 \in {block_remove(parent, idx)} |->
                    put_ref(parent1, max_key, page_id)])
            ELSE parent])
    ELSE block_remove(parent, idx)

\* the `for (parent_id, idx) in path.iter().cloned().rev()` loop of File::remove
RECURSIVE remove_up(_, _, _)
remove_up(st, page_id, path) ==
    IF st.res # "ok" \/ path = <<>> THEN st
    ELSE IF ~page_ok(st, page_id) THEN panic(st)
    ELSE LET parent_id == path_last(path)[1]
             idx0 == path_last(path)[2]
         IN Let([s1 \in {cache_page(st, page_id)} |->
            Let([m \in {IF full(s1.cache[page_id]) < MERGE_THRESHOLD
                THEN merge_step(s1, page_id, parent_id, idx0)
                ELSE merged(s1, page_id, idx0)} |->
               IF m.st.res # "ok" THEN m.st
               ELSE IF ~page_ok(m.st, m.page_id) \/ ~page_ok(m.st, parent_id)
               THEN panic(m.st)
               ELSE Let([s2 \in {cache_page(m.st, m.page_id)} |->
                    Let([s3 \in {page_mut(s2, parent_id)} |->
                    Let([parent1 \in {put_max(s3.cache[parent_id], s3.cache[m.page_id],
                                m.page_id, m.idx)} |->
                    Let([s4 \in {set_page(s3, parent_id, parent1)} |->
                       remove_up(s4, parent_id, path_init(path))])])])])])])

\* File::remove at a leaf slot: remove, ascend, flush
remove_leaf(st, id, path, idx) ==
    Let([page \in {block_remove(st.cache[id], idx)} |->
    Let([s1 \in {set_page(st, id, page)} |->
    Let([s2 \in {remove_up(s1, id, path)} |->
       flush(s2)])])])

\* File::remove: the descent loop, entered with page `id` held mutably
RECURSIVE remove_loop(_, _, _, _, _)
remove_loop(st, id, path, seen, k) ==
    Let([idx \in {ceil(st.cache[id], k)} |->
       IF idx = None THEN st
       ELSE IF ~has_slot(st.cache[id], idx) THEN err(st, "Slot not found")
       ELSE IF slot_page(st.cache[id], idx) = 0 THEN remove_leaf(st, id, path, idx)
       ELSE Let([child \in {slot_page(st.cache[id], idx)} |->
               IF child \in seen \cup {id} THEN err(st, "Cyclic reference detected")
               ELSE IF ~page_ok(st, child) THEN err(st, "Page not found")
               ELSE Let([s1 \in {page_mut(st, child)} |->
                       remove_loop(s1, child, Append(path, <<id, idx>>),
                                   seen \cup {id}, k)])])])

\* a remove that reports a key above every key of the root as an error
remove_strict(st, k) ==
    IF ~page_ok(st, ROOT) THEN panic(st)
    ELSE Let([s1 \in {root_mut(st)} |->
            IF ceil(s1.cache[ROOT], k) = None THEN err(s1, "Key not found")
            ELSE remove_loop(s1, ROOT, <<>>, {}, k)])

remove(st, k) ==
    IF ~page_ok(st, ROOT) THEN panic(st)
    ELSE Let([s1 \in {root_mut(st)} |-> remove_loop(s1, ROOT, <<>>, {}, k)])

\* File::min: leftmost descent, entered with page `id` cached
RECURSIVE min_loop(_, _)
min_loop(st, id) ==
    IF ~has_slot(st.cache[id], 0) THEN panic(st)
    ELSE IF slot_page(st.cache[id], 0) = 0 THEN returns(st, block_min(st.cache[id]))
    ELSE Let([child \in {slot_page(st.cache[id], 0)} |->
            IF ~page_ok(st, child) THEN err(st, "Page not found")
            ELSE Let([s1 \in {cache_page(st, child)} |-> min_loop(s1, child)])])

min(st) ==
    IF ~page_ok(st, ROOT) THEN panic(st)
    ELSE Let([s1 \in {cache_page(st, ROOT)} |->
            IF len(s1.cache[ROOT]) = 0 THEN returns(s1, NoKey)
            ELSE min_loop(s1, ROOT)])

\* File::max: rightmost descent, entered with page `id` cached
RECURSIVE max_loop(_, _)
max_loop(st, id) ==
    Let([last_idx \in {len(st.cache[id]) - 1} |->
       IF ~has_slot(st.cache[id], last_idx) THEN panic(st)
       ELSE IF slot_page(st.cache[id], last_idx) = 0
       THEN returns(st, block_max(st.cache[id]))
       ELSE Let([child \in {slot_page(st.cache[id], last_idx)} |->
               IF ~page_ok(st, child) THEN err(st, "Page not found")
               ELSE Let([s1 \in {cache_page(st, child)} |-> max_loop(s1, child)])])])

max(st) ==
    IF ~page_ok(st, ROOT) THEN panic(st)
    ELSE Let([s1 \in {cache_page(st, ROOT)} |->
            IF len(s1.cache[ROOT]) = 0 THEN returns(s1, NoKey)
            ELSE max_loop(s1, ROOT)])

\* the inner leftmost descent of File::above: every step unwraps
RECURSIVE above_min(_, _)
above_min(st, id) ==
    IF ~has_slot(st.cache[id], 0) THEN panic(st)
    ELSE IF slot_page(st.cache[id], 0) = 0 THEN returns(st, block_min(st.cache[id]))
    ELSE Let([child \in {slot_page(st.cache[id], 0)} |->
            IF ~page_ok(st, child) THEN panic(st)
            ELSE Let([s1 \in {cache_page(st, child)} |-> above_min(s1, child)])])

\* the ascent of File::above over the saved path, innermost parent first
\* `page = self.page(parent_id).unwrap()` is evaluated while `page` is still
\* the guard of the page `held`, which the assignment drops afterwards
RECURSIVE above_up(_, _, _)
above_up(st, path, held) ==
    IF path = <<>> THEN returns(st, NoKey)
    ELSE IF ~page_ok(st, path_last(path)[1]) THEN panic(st)
    ELSE LET parent_id == path_last(path)[1]
             parent_idx == path_last(path)[2]
         IN Let([s1 \in {page_held(st, parent_id, {held})} |->
               IF s1.res # "ok" THEN s1
               ELSE IF len(s1.cache[parent_id]) = 0 THEN panic(s1)
               ELSE IF parent_idx < len(s1.cache[parent_id]) - 1
               THEN Let([id \in {slot_page(s1.cache[parent_id], parent_idx + 1)} |->
                       IF ~page_ok(s1, id) THEN panic(s1)
                       ELSE Let([s2 \in {cache_page(s1, id)} |-> above_min(s2, id)])])
               ELSE above_up(s1, path_init(path), parent_id)])

RECURSIVE above_loop(_, _, _, _)
above_loop(st, id, path, k) ==
    Let([idx \in {ceil(st.cache[id], k)} |->
       IF idx = None THEN panic(st)
       ELSE IF slot_page(st.cache[id], idx) = 0
       THEN IF lt(k, key(st.cache[id], idx)) THEN returns(st, key(st.cache[id], idx))
            ELSE IF k = key(st.cache[id], idx) /\ idx < len(st.cache[id]) - 1
                 THEN returns(st, key(st.cache[id], idx + 1))
            ELSE above_up(st, path, id)
       ELSE Let([child \in {slot_page(st.cache[id], idx)} |->
               IF ~page_ok(st, child) THEN err(st, "Page not found")
               ELSE Let([s1 \in {cache_page(st, child)} |->
                       above_loop(s1, child, Append(path, <<id, idx>>), k)])])])

above(st, k) ==
    IF ~page_ok(st, ROOT) THEN panic(st)
    ELSE Let([s1 \in {cache_page(st, ROOT)} |->
            IF len(s1.cache[ROOT]) = 0 THEN returns(s1, NoKey)
            ELSE IF lt(block_max(s1.cache[ROOT]), k) THEN returns(s1, NoKey)
            ELSE above_loop(s1, ROOT, <<>>, k)])

\* the ascent of File::below: the max key of the page left of the taken slot
RECURSIVE below_up(_, _)
below_up(st, path) ==
    IF path = <<>> THEN returns(st, NoKey)
    ELSE IF ~page_ok(st, path_last(path)[1]) THEN panic(st)
    ELSE LET parent_id == path_last(path)[1]
             parent_idx == path_last(path)[2]
         IN Let([s1 \in {cache_page(st, parent_id)} |->
               IF parent_idx > 0
               THEN IF ~has_slot(s1.cache[parent_id], parent_idx - 1) THEN panic(s1)
                    ELSE Let([id \in {slot_page(s1.cache[parent_id], parent_idx - 1)} |->
                            IF ~page_ok(s1, id) THEN panic(s1)
                            ELSE Let([s2 \in {cache_page(s1, id)} |->
                                    returns(max_trap(s2, s2.cache[id]),
                                            block_max(s2.cache[id]))])])
               ELSE below_up(s1, path_init(path))])

RECURSIVE below_loop(_, _, _, _)
below_loop(st, id, path, k) ==
    Let([idx \in {ceil(st.cache[id], k)} |->
       IF idx = None THEN panic(st)
       ELSE IF slot_page(st.cache[id], idx) = 0
       THEN IF idx > 0 /\ gt(k, key(st.cache[id], idx - 1))
            THEN returns(st, key(st.cache[id], idx - 1))
            ELSE below_up(st, path)
       ELSE Let([child \in {slot_page(st.cache[id], idx)} |->
               IF ~page_ok(st, child) THEN err(st, "Page not found")
               ELSE Let([s1 \in {cache_page(st, child)} |->
                       below_loop(s1, child, Append(path, <<id, idx>>), k)])])])

below(st, k) ==
    IF ~page_ok(st, ROOT) THEN panic(st)
    ELSE Let([s1 \in {cache_page(st, ROOT)} |->
            IF len(s1.cache[ROOT]) = 0 THEN returns(s1, NoKey)
            ELSE IF lt(block_max(s1.cache[ROOT]), k)
            THEN returns(s1, block_max(s1.cache[ROOT]))
            ELSE below_loop(s1, ROOT, <<>>, k)])

\* Store::is_empty
is_empty(st) ==
    IF ~page_ok(st, ROOT) THEN panic(st)
    ELSE Let([s1 \in {cache_page(st, ROOT)} |->
            returns(s1, len(s1.cache[ROOT]) = 0)])

\* File::dump: dump_page keeps the guard of a page while it goes through the
\* pages its slots refer to; the text it builds is left out
RECURSIVE dump_page(_, _, _)
RECURSIVE dump_links(_, _, _)
dump_links(st, links, held) ==
    IF st.res # "ok" \/ links = <<>> THEN st
    ELSE Let([s1 \in {dump_page(st, Head(links), held)} |->
            dump_links(s1, Tail(links), held)])

dump_page(st, page_id, held) ==
    IF page_id = 0 THEN st
    ELSE IF ~page_ok(st, page_id) THEN panic(st)
    ELSE Let([s1 \in {page_held(st, page_id, held)} |->
            IF s1.res # "ok" THEN s1
            ELSE dump_links(s1, [i \in DOMAIN s1.cache[page_id].slots |->
                                    s1.cache[page_id].slots[i].page],
                            held \cup {page_id})])

dump(st) == dump_page(st, ROOT, {})

\* File::make: the file holds the empty root; nothing is cached yet
make(page_bytes) ==
    [cache |-> <<>>, disk |-> <<create(ROOT, page_bytes)>>, dirty |-> {},
     empty |-> <<>>, res |-> "ok", ret |-> NoKey, trap |-> <<>>, log |-> <<>>,
     lru |-> <<>>, io |-> {}]

\* a scan that stops one page before the end of the file
RECURSIVE scan_short(_, _)
scan_short(disk, id) ==
    IF id >= Len(disk) THEN <<>>
    ELSE (IF len(disk[id]) = 0 THEN <<id>> ELSE <<>>) \o scan_short(disk, id + 1)

\* the compaction scan of File::open: ids 2..total whose page has no slot,
\* pushed when the header's page_count (always 1) is below the page total
RECURSIVE scan_empty(_, _)
scan_empty(disk, id) ==
    IF id > Len(disk) THEN <<>>
    ELSE (IF len(disk[id]) = 0 THEN <<id>> ELSE <<>>) \o scan_empty(disk, id + 1)

\* File::open on the file a dropped File leaves behind
open(disk) ==
    [cache |-> (ROOT :> disk[ROOT]), disk |-> disk, dirty |-> {},
     empty |-> IF 1 < Len(disk) THEN scan_empty(disk, 2) ELSE <<>>,
     res |-> "ok", ret |-> NoKey, trap |-> <<>>, log |-> <<>>,
     lru |-> <<ROOT>>, io |-> {}]

\* ------------------------------------------------------------------------
\* The store as a state machine
\* ------------------------------------------------------------------------
VARIABLES
    cache,   \* File.cache: page id -> cached page
    disk,    \* the pages of the backing file, by page id
    dirty,   \* File.dirty
    empty,   \* File.empty: the free-id min-heap, as an ascending sequence
    last,    \* the last insert, remove or open, or the query that failed:
             \* [op, key, res, was, held, twice], was being what lookup
             \* returned for every key when the call was made
    model,   \* the contents the successful calls so far ask for: key -> value
    hist,    \* "inserts" while every call so far was a query or a successful
             \* insert of a key not stored before; "removes" while such a run
             \* was followed only by queries and successful removes of stored
             \* keys; else "mixed"
    ops,     \* number of insert, remove and open calls made so far
    pend     \* the call of a second thread that has given up a page borrow
             \* and not taken the next one yet, with what it keeps in its
             \* locals; Idle when every call so far ran alone

vars == <<cache, disk, dirty, empty, last, model, hist, ops, pend>>

Idle == [op |-> "none"]

\* Bound of the exploration: insert, remove and open calls per run
MaxOps == 6

St == [cache |-> cache, disk |-> disk, dirty |-> dirty, empty |-> empty,
       res |-> "ok", ret |-> NoKey, trap |-> <<>>, log |-> <<>>,
       lru |-> <<>>, io |-> {}]

\* what lookup(k) returns in the current state
Get(k) == lookup(St, k).ret

\* what lookup returns for every key of the universe in the current state
Was == [x \in AllKeys |-> Get(x)]

\* the record of a call: its outcome, what lookup returned for every key when
\* it was made, whether the successful calls before it left its key stored,
\* and whether it repeats the call recorded before it
Call(op, k, s) == [op |-> op, key |-> k, res |-> s.res, was |-> Was,
                   held |-> k \in DOMAIN model, size |-> 0,
                   twice |-> (last.op = op /\ last.key = k)]

Becomes(s) ==
    /\ cache' = s.cache
    /\ disk' = s.disk
    /\ dirty' = s.dirty
    /\ empty' = s.empty

\* a run ends with the first call that aborts or returns Err: what a failed
\* call leaves behind is unspecified and callers treat an error as terminal
Running == last.res = "ok"

Init ==
    /\ \E s \in {make(PageBytes)} :
          /\ cache = s.cache
          /\ disk = s.disk
          /\ dirty = s.dirty
          /\ empty = s.empty
    /\ last = [op |-> "make", key |-> NoKey, res |-> "ok",
               was |-> [x \in AllKeys |-> NoKey], held |-> FALSE, size |-> 0,
               twice |-> FALSE]
    /\ model = <<>>
    /\ hist = "inserts"
    /\ ops = 0
    /\ pend = Idle

Insert(k, v) ==
    /\ Running
    /\ ops < MaxOps
    /\ \E r \in {insert(St, k, v)} : \E s \in builds(r) :
          /\ Becomes(s)
          /\ last' = [Call("insert", k, s) EXCEPT !.size = Len(k) + Len(v)]
          /\ model' = IF s.res = "ok" THEN (k :> v) @@ model ELSE model
          /\ hist' = IF s.res = "ok" /\ hist = "inserts" /\ k \notin DOMAIN model
                     THEN "inserts" ELSE "mixed"
    /\ ops' = ops + 1
    /\ UNCHANGED pend

Remove(k) ==
    /\ Running
    /\ ops < MaxOps
    /\ \E s \in {remove(St, k)} :
          /\ Becomes(s)
          /\ last' = Call("remove", k, s)
          /\ model' = IF s.res = "ok"
                      THEN [x \in DOMAIN model \ {k} |-> model[x]] ELSE model
          /\ hist' = IF s.res = "ok" /\ hist \in {"inserts", "removes"}
                        /\ k \in DOMAIN model
                     THEN "removes" ELSE "mixed"
    /\ ops' = ops + 1
    /\ UNCHANGED pend

\* a query changes the cache only; it is recorded when it does not return Ok
Query(op, k, s) ==
    /\ Running
    /\ Becomes(s)
    /\ last' = IF s.res = "ok" THEN last ELSE Call(op, k, s)
    /\ UNCHANGED <<model, hist, ops, pend>>

Lookup(k) == \E s \in {lookup(St, k)} : Query("lookup", k, s)
Min == \E s \in {min(St)} : Query("min", NoKey, s)
Max == \E s \in {max(St)} : Query("max", NoKey, s)
Above(k) == \E s \in {above(St, k)} : Query("above", k, s)
Below(k) == \E r \in {below(St, k)} : \E s \in builds(r) : Query("below", k, s)

\* the File is dropped (nothing is written on drop) and the path opened again
Reopen ==
    /\ Running
    /\ ops < MaxOps
    /\ \E s \in {open(disk)} : Becomes(s)
    /\ last' = [op |-> "open", key |-> NoKey, res |-> "ok",
                was |-> Was, held |-> FALSE, size |-> 0, twice |-> FALSE]
    /\ hist' = "mixed"
    /\ ops' = ops + 1
    /\ UNCHANGED <<model, pend>>

Next ==
    \/ \E k \in Keys, v \in Vals : Insert(k, v)
    \/ \E k \in Keys : Remove(k)
    \/ \E k \in Keys : Lookup(k)
    \/ Min
    \/ Max
    \/ \E k \in Keys : Above(k)
    \/ \E k \in Keys : Below(k)
    \/ Reopen

Spec == Init /\ [][Next]_vars

\* the same calls with oversized keys and values
NextLarge ==
    \/ \E k \in LargeKeys, v \in LargeVals : Insert(k, v)
    \/ \E k \in LargeKeys : Remove(k)
    \/ \E k \in LargeKeys : Lookup(k)

SpecLarge == Init /\ [][NextLarge]_vars

\* ------------------------------------------------------------------------
\* Observations used by the properties
\* ------------------------------------------------------------------------
\* outcome and value of lookup(k) in the current state
Found(k) == <<lookup(St, k).res, lookup(St, k).ret>>

\* LruCache::lru returns None, so that put evicts nothing
CacheBelowCap == Cardinality(DOMAIN cache) < CACHE_CAP

\* the keys lookup finds
Stored == {k \in AllKeys : Get(k) # NoKey}

\* probe keys: the universe, a key below it, one inside it and one above it
Probes == Keys \cup {<<0>>, <<3>>, <<9>>}

\* the latest insert, remove or open was a call of `op` that returned Ok
Returned(op) == last.op = op /\ last.res = "ok"

\* the keys lookup found when the latest call was made
StoredBefore == {k \in AllKeys : last.was[k] # NoKey}

\* the file holds pages besides the root: a split has happened in the run
Grown == Len(disk) > 1

\* ------------------------------------------------------------------------
\* Properties
\* ------------------------------------------------------------------------

\* C1: after a run of successful inserts of pairwise distinct keys on a fresh
\* store, lookup of every inserted key returns the value inserted with it.
C1_RoundTrip ==
    hist = "inserts" =>
        \A k \in DOMAIN model : Found(k) = <<"ok", model[k]>>

\* the smallest and the largest key of a set, NoKey for the empty set
Least(S) == IF S = {} THEN NoKey
            ELSE CHOOSE k \in S : \A x \in S : ~lt(x, k)

Greatest(S) == IF S = {} THEN NoKey
               ELSE CHOOSE k \in S : \A x \in S : ~gt(x, k)

\* what a File opened on the file as it is now finds for k
Reopened(k) == <<lookup(open(disk), k).res, lookup(open(disk), k).ret>>

\* C2: after remove(k) of a stored key returns, lookup(k) is None and every
\* other key that looked up to a value before the call still looks up to it.
C2_RemoveStored ==
    (Returned("remove") /\ last.held) =>
        /\ Found(last.key) = <<"ok", NoKey>>
        /\ \A k \in StoredBefore \ {last.key} : Found(k) = <<"ok", last.was[k]>>

\* C3: insert(k, v) changes the result of lookup for k only: every other key
\* stored before the call still returns its value, whether k is new or is
\* already stored.
C3_InsertFrame ==
    Returned("insert") =>
        \A k \in StoredBefore \ {last.key} : Found(k) = <<"ok", last.was[k]>>

\* C4: remove(k) of a key that is not stored leaves every stored key looking
\* up to its value.
C4_RemoveAbsentFrame ==
    (Returned("remove") /\ ~last.held /\ last.key \notin StoredBefore) =>
        \A k \in StoredBefore : Found(k) = <<"ok", last.was[k]>>

\* C5: an insert on a key that is already stored replaces its value:
\* lookup(k) returns the value of the latest insert.
C5_Upsert ==
    (Returned("insert") /\ (last.held \/ last.key \in StoredBefore)) =>
        Found(last.key) = <<"ok", model[last.key]>>

\* C6: when a successful insert or remove has returned, every cached page is
\* in the file as it is in the cache, and a File opened on the file finds
\* what the running File finds.
C6_Durable ==
    (Returned("insert") \/ Returned("remove")) =>
        /\ \A id \in DOMAIN cache : disk[id] = cache[id]
        /\ \A k \in Keys : Reopened(k) = Found(k)

\* C7: above(p) returns the smallest stored key strictly greater than p, or
\* None when there is none, for stored and not stored probes p.
C7_Above ==
    Running =>
        \A p \in Probes :
            /\ above(St, p).res = "ok"
            /\ above(St, p).ret = Least({k \in Stored : gt(k, p)})

\* C8: below(p) returns the largest stored key strictly less than p, or None
\* when there is none, for stored and not stored probes p.
C8_Below ==
    Running =>
        \A p \in Probes :
            \A s \in builds(below(St, p)) :
                /\ s.res = "ok"
                /\ s.ret = Greatest({k \in Stored : lt(k, p)})

\* C9: after successful inserts and removes min() returns the smallest stored
\* key and max() the largest one, and both return None when nothing is
\* stored.
C9_MinMax ==
    Running =>
        /\ min(St).res = "ok" /\ min(St).ret = Least(DOMAIN model)
        /\ max(St).res = "ok" /\ max(St).ret = Greatest(DOMAIN model)

PageOf(id) == IF id \in DOMAIN cache THEN cache[id] ELSE disk[id]

\* the pages the slots of page id refer to
Children(id) ==
    {PageOf(id).slots[i].page : i \in 1..Len(PageOf(id).slots)} \cap 1..Len(disk)

\* the pages of the tree: those reached from the root through references
RECURSIVE Closure(_)
Closure(S) ==
    LET T == S \cup UNION {Children(id) : id \in S}
    IN IF T = S THEN S ELSE Closure(T)

Reachable == Closure({ROOT})

\* C11: after inserts of distinct keys followed by the removal of every one of
\* them, in any order, the root has no slot and is_empty() is true.
C11_Reclaimed ==
    (hist = "removes" /\ model = <<>>) =>
        /\ len(PageOf(ROOT)) = 0
        /\ is_empty(St).res = "ok" /\ is_empty(St).ret = TRUE

C11_Witness ==
    /\ hist = "removes" /\ model = <<>> /\ Grown
    /\ Cardinality(StoredBefore) = 1
    /\ len(PageOf(ROOT)) = 0
    /\ is_empty(St).ret = TRUE

\* C12: every page id from 2 up to the end of the file is reachable from the
\* root or is in the free heap.
C12_NoLeak ==
    Running =>
        \A id \in 2..Len(disk) :
            id \in Reachable \/ \E i \in 1..Len(empty) : empty[i] = id

\* the last call was an insert of a key longer than half a page or of an
\* entry longer than a whole page
Oversized ==
    /\ last.op = "insert"
    /\ (2 * Len(last.key) > PageBytes \/ last.size > PageBytes)

\* C13: an insert of a key longer than half a page, or of an entry longer than
\* a page, returns the "Entry does not fit" error, stores nothing and leaves
\* every key stored before retrievable with its value.
C13_Rejected ==
    Oversized =>
        /\ last.res = "Entry does not fit"
        /\ \A k \in StoredBefore : Found(k) = <<"ok", last.was[k]>>
        /\ last.key \notin StoredBefore => Found(last.key) = <<"ok", NoKey>>

\* C14: every lookup, insert, remove, min, max, above and below call ends with
\* Ok or with an Err value: none aborts on an unwrap of a missing slot, key or
\* page, or on an integer underflow.
C14_NoAbort == last.res # "panic"

\* C15: the root is always page 1: the page under id 1 carries the header id
\* 1, no slot of the tree refers to it, and every page reached from it carries
\* the id it is reached under.
C15_RootIsOne ==
    Running =>
        /\ PageOf(ROOT).id = ROOT
        /\ disk[ROOT].id = ROOT
        /\ \A id \in Reachable :
              /\ PageOf(id).id = id
              /\ ROOT \notin Children(id)

C15_Witness ==
    /\ Returned("remove") /\ last.held
    /\ Cardinality(Reachable) >= 3
    /\ len(PageOf(ROOT)) >= 2
    /\ PageOf(ROOT).id = ROOT
    /\ \A id \in Reachable : ROOT \notin Children(id)

\* the slots of page id that refer to a child page
Refs(id) == {i \in 1..Len(PageOf(id).slots) : PageOf(id).slots[i].page # 0}

\* C18: after a completed insert or remove every internal slot (k, child) of
\* every page reachable from the root has k equal to the largest key of child.
C18_Separators ==
    (Returned("insert") \/ Returned("remove")) =>
        \A id \in Reachable : \A i \in Refs(id) :
            /\ PageOf(id).slots[i].page \in 1..Len(disk)
            /\ len(PageOf(PageOf(id).slots[i].page)) > 0
            /\ PageOf(id).slots[i].key = block_max(PageOf(PageOf(id).slots[i].page))

\* the keys stored in the leaves of the subtree of page id
LeafKeys(id) ==
    UNION {{PageOf(c).slots[i].key : i \in DOMAIN PageOf(c).slots \ Refs(c)} :
           c \in Closure({id})}

\* C19: after a completed insert or remove, in every internal page the keys
\* stored in the subtree of slot i are greater than the separator of slot
\* i-1 and at most the separator of slot i.
C19_Ranges ==
    (Returned("insert") \/ Returned("remove")) =>
        \A id \in Reachable : \A i \in Refs(id) :
            \A k \in LeafKeys(PageOf(id).slots[i].page) :
                /\ ~lt(PageOf(id).slots[i].key, k)
                /\ i > 1 => lt(PageOf(id).slots[i - 1].key, k)

C19_Witness ==
    /\ Returned("remove") /\ last.held
    /\ \E id \in Reachable :
          /\ Cardinality(Refs(id)) >= 2
          /\ \A i \in Refs(id) : LeafKeys(PageOf(id).slots[i].page) # {}
          /\ \E i \in Refs(id) :
                /\ i > 1
                /\ \A k \in LeafKeys(PageOf(id).slots[i].page) :
                      lt(PageOf(id).slots[i - 1].key, k)

\* ------------------------------------------------------------------------
\* One page on its own: put_val, put_ref and remove called on a Block
\* ------------------------------------------------------------------------
MaxBlockOps == 5
RefIds == {2, 3}

InitBlock ==
    /\ \E s \in {cache_page(make(PageBytes), ROOT)} :
          /\ cache = s.cache
          /\ disk = s.disk
          /\ dirty = s.dirty
          /\ empty = s.empty
    /\ last = [op |-> "create", key |-> NoKey, res |-> "ok",
               was |-> [x \in AllKeys |-> NoKey], held |-> FALSE, size |-> 0,
               twice |-> FALSE]
    /\ model = <<>>
    /\ hist = "inserts"
    /\ ops = 0
    /\ pend = Idle

\* last.res is "none" when the call returned None, last.size the bytes of
\* the key and the value it was given
BlockCall(op, k, page, size, ret) ==
    /\ ops < MaxBlockOps
    /\ cache' = [cache EXCEPT ![ROOT] = page]
    /\ last' = [last EXCEPT !.op = op, !.key = k,
                            !.held = (find(cache[ROOT], k) # None),
                            !.size = size,
                            !.res = IF ret = None THEN "none" ELSE "ok"]
    /\ ops' = ops + 1
    /\ UNCHANGED <<disk, dirty, empty, model, hist, pend>>

BlockPutVal(k, v) ==
    \E p \in {put_val(cache[ROOT], k, v)} :
        BlockCall("put_val", k, p, Len(k) + Len(v),
                  put_entry_ret(cache[ROOT], k, v))

BlockPutRef(k, id) ==
    \E p \in {put_ref(cache[ROOT], k, id)} :
        BlockCall("put_ref", k, p, Len(k), put_entry_ret(cache[ROOT], k, <<>>))

BlockRemove(idx) ==
    \E p \in {block_remove(cache[ROOT], idx)} :
        BlockCall("remove", key(cache[ROOT], idx), p, 0, 0)

BlockClear ==
    \E p \in {clear(cache[ROOT])} : BlockCall("clear", NoKey, p, 0, 0)

NextBlock ==
    \/ \E k \in Keys, v \in Vals : BlockPutVal(k, v)
    \/ \E k \in Keys, id \in RefIds : BlockPutRef(k, id)
    \/ \E idx \in 0..len(cache[ROOT]) : BlockRemove(idx)
    \/ BlockClear

SpecBlock == InitBlock /\ [][NextBlock]_vars

\* C20: after any sequence of put_val, put_ref and remove on a page its slot
\* directory is strictly ascending by key, so no key occurs twice.
C20_Ascending ==
    \A i \in 1..(len(cache[ROOT]) - 1) :
        lt(cache[ROOT].slots[i].key, cache[ROOT].slots[i + 1].key)

C20_Witness ==
    /\ last.op = "remove" /\ last.held
    /\ len(cache[ROOT]) >= 3
    /\ \E i \in 1..len(cache[ROOT]) : cache[ROOT].slots[i].page # 0
    /\ \E i \in 1..len(cache[ROOT]) : cache[ROOT].slots[i].page = 0
    /\ \A i \in 1..(len(cache[ROOT]) - 1) :
          lt(cache[ROOT].slots[i].key, cache[ROOT].slots[i + 1].key)

\* ------------------------------------------------------------------------
\* Two threads on one File.  Every page access takes the cache lock for as
\* long as the page borrow lives and no longer: File::page and
\* File::page_mut return guards mapped from cache.read() / cache.write(),
\* and insert, remove and lookup give the borrow of a page up (drop(page))
\* before they take the next.  No lock is held from the entry of a call to
\* its return.  The second thread stops once, at the first point of its call
\* where it holds no borrow; the first thread runs one whole call there.
\* ------------------------------------------------------------------------
\* calls made by one thread alone before the second thread starts
MaxConcOps == 2

\* the whole call t on store st
Apply(st, t) ==
    IF t.call = "insert" THEN insert(st, t.key, t.val) ELSE remove(st, t.key)

\* what lookup returns for every key
Contents(st) == [k \in Keys |-> <<lookup(st, k).res, lookup(st, k).ret>>]

\* the store as the next call finds it
Next_st(s) ==
    [s EXCEPT !.res = "ok", !.ret = NoKey, !.trap = <<>>, !.log = <<>>]

Paused(call, k, v, idx, child) ==
    [op |-> "paused", call |-> call, key |-> k, val |-> v, idx |-> idx,
     child |-> child, st0 |-> St, mid |-> Idle, res |-> "ok", ret |-> NoKey]

AloneInsert(k, v) ==
    /\ pend = Idle /\ ops < MaxConcOps
    /\ Insert(k, v)

AloneRemove(k) ==
    /\ pend = Idle /\ ops < MaxConcOps
    /\ Remove(k)

\* File::insert up to the drop(page) that follows the choice of idx
InsertBegin(k, v) ==
    /\ Running /\ pend = Idle
    /\ page_ok(St, ROOT)
    /\ \E s \in {root_mut(St)} :
          /\ len(s.cache[ROOT]) > 0
          /\ Becomes(s)
          /\ pend' = Paused("insert", k, v, insert_idx(s.cache[ROOT], k), 0)
    /\ UNCHANGED <<last, model, hist, ops>>

\* File::remove up to the drop(page) that precedes page_mut(slot.page)
RemoveBegin(k) ==
    /\ Running /\ pend = Idle
    /\ page_ok(St, ROOT)
    /\ \E s \in {root_mut(St)} : \E idx \in {ceil(s.cache[ROOT], k)} :
          /\ idx # None
          /\ has_slot(s.cache[ROOT], idx)
          /\ slot_page(s.cache[ROOT], idx) \notin {0, ROOT}
          /\ Becomes(s)
          /\ pend' = Paused("remove", k, <<>>, idx, slot_page(s.cache[ROOT], idx))
    /\ UNCHANGED <<last, model, hist, ops>>

\* File::lookup up to the drop(page) that precedes page(slot.page)
LookupBegin(k) ==
    /\ Running /\ pend = Idle
    /\ page_ok(St, ROOT)
    /\ \E s \in {cache_page(St, ROOT)} : \E idx \in {ceil(s.cache[ROOT], k)} :
          /\ idx # None
          /\ has_slot(s.cache[ROOT], idx)
          /\ slot_page(s.cache[ROOT], idx) # 0
          /\ Becomes(s)
          /\ pend' = Paused("lookup", k, <<>>, idx, slot_page(s.cache[ROOT], idx))
    /\ UNCHANGED <<last, model, hist, ops>>

\* a whole call of the first thread while the second holds no borrow
Meanwhile(t) ==
    /\ pend.op = "paused" /\ pend.mid = Idle
    /\ \E r \in {Apply(St, t)} : \E s \in builds(r) :
          /\ Becomes(s)
          /\ pend' = [pend EXCEPT !.mid =
                        [op |-> "done", call |-> t.call, key |-> t.key,
                         val |-> t.val, res |-> s.res,
                         before |-> lookup(St, pend.key).ret,
                         after |-> lookup(Next_st(s), pend.key).ret]]
    /\ UNCHANGED <<last, model, hist, ops>>

MeanwhileInsert(k, v) ==
    \E t \in {[call |-> "insert", key |-> k, val |-> v]} : Meanwhile(t)

MeanwhileRemove(k) ==
    \E t \in {[call |-> "remove", key |-> k, val |-> <<>>]} : Meanwhile(t)

\* the paused call goes on to its return
Resume(s) ==
    /\ Becomes(s)
    /\ pend' = [pend EXCEPT !.op = "done", !.res = s.res, !.ret = s.ret]
    /\ UNCHANGED <<last, model, hist, ops>>

InsertEnd ==
    /\ pend.op = "paused" /\ pend.call = "insert"
    /\ \E r \in {insert_end(insert_at(St, ROOT, <<>>, {}, pend.key, pend.val,
                                       pend.idx), pend.key, pend.val)} :
          \E s \in builds(r) : Resume(s)

RemoveEnd ==
    /\ pend.op = "paused" /\ pend.call = "remove"
    /\ \E s \in {IF ~page_ok(St, pend.child) THEN err(St, "Page not found")
                 ELSE remove_loop(page_mut(St, pend.child), pend.child,
                                  <<<<ROOT, pend.idx>>>>, {ROOT}, pend.key)} :
          Resume(s)

LookupEnd ==
    /\ pend.op = "paused" /\ pend.call = "lookup"
    /\ \E s \in {IF ~page_ok(St, pend.child) THEN err(St, "Page not found")
                 ELSE lookup_loop(cache_page(St, pend.child), pend.child,
                                  {ROOT}, pend.key)} :
          Resume(s)

NextConc ==
    \/ \E k \in Keys, v \in Vals : AloneInsert(k, v)
    \/ \E k \in Keys : AloneRemove(k)
    \/ \E k \in Keys, v \in Vals : InsertBegin(k, v)
    \/ \E k \in Keys : RemoveBegin(k)
    \/ \E k \in Keys : LookupBegin(k)
    \/ \E k \in Keys, v \in Vals : MeanwhileInsert(k, v)
    \/ \E k \in Keys : MeanwhileRemove(k)
    \/ InsertEnd
    \/ RemoveEnd
    \/ LookupEnd

SpecConc == Init /\ [][NextConc]_vars

\* the two calls of a run in which a mutator ran while another was paused
Ran == pend.op = "done" /\ pend.mid # Idle

\* the store after the calls t1 and t2, one after the other, on store st
Serial(st, t1, t2) == Apply(Next_st(Apply(st, t1)), t2)

Others(p, k) ==
    {<<p.slots[i].key, p.slots[i].val, p.slots[i].page>> :
        i \in {j \in DOMAIN p.slots : p.slots[j].key # k}}

\* the step is a put_val or put_ref of a key the page holds
Upserts ==
    /\ ops' = ops + 1
    /\ last'.op \in {"put_val", "put_ref"}
    /\ last'.held

\* C21: put_val or put_ref of a key already in the page replaces exactly that
\* entry: the slot count and every other entry of the page are unchanged.
C21_Replace ==
    [][Upserts =>
          /\ len(cache'[ROOT]) = len(cache[ROOT])
          /\ Others(cache'[ROOT], last'.key) = Others(cache[ROOT], last'.key)]_vars

\* ------------------------------------------------------------------------
\* The calls with what they did inside: pend carries the log of the last
\* insert or remove
\* ------------------------------------------------------------------------
MaxLogOps == 5

\* the ids next_id has returned and free_id has not been given since, after
\* the events of a call; `again` when next_id returned one of them
RECURSIVE Outstanding(_, _)
Outstanding(o, log) ==
    IF log = <<>> THEN o
    ELSE Let([e \in {Head(log)} |->
         Let([o1 \in {IF e.ev = "next_id" /\ e.res = "ok"
                       THEN [out |-> o.out \cup {e.ret},
                             again |-> o.again \/ e.ret \in o.out]
                       ELSE IF e.ev = "free_id"
                       THEN [out |-> o.out \ {e.id}, again |-> o.again]
                       ELSE o} |->
            Outstanding(o1, Tail(log))])])

Out == IF pend.op = "log" THEN pend.out ELSE {}

Logged(call, k, s) ==
    \E o \in {Outstanding([out |-> Out, again |-> FALSE], s.log)} :
        pend' = [op |-> "log", call |-> call, key |-> k, res |-> s.res,
                 log |-> s.log, out |-> o.out, again |-> o.again]

LoggedInsert(k, v, bound) ==
    /\ Running
    /\ ops < bound
    /\ \E r \in {insert(St, k, v)} : \E s \in builds(r) :
          /\ Becomes(s)
          /\ last' = [Call("insert", k, s) EXCEPT !.size = Len(k) + Len(v)]
          /\ model' = IF s.res = "ok" THEN (k :> v) @@ model ELSE model
          /\ Logged("insert", k, s)
    /\ hist' = "mixed"
    /\ ops' = ops + 1

LoggedRemove(k, bound) ==
    /\ Running
    /\ ops < bound
    /\ \E s \in {remove(St, k)} :
          /\ Becomes(s)
          /\ last' = Call("remove", k, s)
          /\ model' = IF s.res = "ok"
                      THEN [x \in DOMAIN model \ {k} |-> model[x]] ELSE model
          /\ Logged("remove", k, s)
    /\ hist' = "mixed"
    /\ ops' = ops + 1

NextLog ==
    \/ \E k \in Keys, v \in Vals : LoggedInsert(k, v, MaxLogOps)
    \/ \E k \in Keys : LoggedRemove(k, MaxLogOps)

SpecLog == Init /\ [][NextLog]_vars

\* short entries, of 18 and 19 bytes with their slot, and one of 63 bytes:
\* leaves below the merge threshold on both sides of a leaf that is not
MergeKeys == {<<2>>, <<4>>, <<6>>}
MergeVals == {<<1>>, <<1, 0>>, Pad(7, 46)}

NextMerge ==
    \/ \E k \in MergeKeys, v \in MergeVals : LoggedInsert(k, v, MaxLogOps)
    \/ \E k \in MergeKeys : LoggedRemove(k, MaxLogOps)

SpecMerge == Init /\ [][NextMerge]_vars

\* the same calls, and the File dropped and opened again
MaxFreeOps == 6

FreeReopen ==
    /\ ops < MaxFreeOps
    /\ Reopen

NextFree ==
    \/ \E k \in MergeKeys, v \in MergeVals : LoggedInsert(k, v, MaxFreeOps)
    \/ \E k \in MergeKeys : LoggedRemove(k, MaxFreeOps)
    \/ FreeReopen

SpecFree == Init /\ [][NextFree]_vars

\* the records of kind ev in the log of the last call
Events(ev) ==
    IF pend.op # "log" THEN {}
    ELSE {pend.log[i] : i \in {j \in DOMAIN pend.log : pend.log[j].ev = ev}}

\* the (key, value, child) entries of a slot directory, in slot order
Entries(slots) ==
    [i \in DOMAIN slots |-> <<slots[i].key, slots[i].val, slots[i].page>>]

\* the keys under which the directory refers to page id
SeparatorsOf(slots, id) == {i \in DOMAIN slots : slots[i].page = id}

\* the directory holds one slot for page id, with the largest key of `page`
OneSeparator(slots, id, page) ==
    /\ Cardinality(SeparatorsOf(slots, id)) = 1
    /\ page # <<>>
    /\ \A i \in SeparatorsOf(slots, id) : slots[i].key = page[Len(page)].key

\* C22: a split of a page of n entries leaves the first floor(n/2) entries in
\* the lower page and the others in the upper page, and the parent with one
\* separator for each of the two, equal to its largest key.
C22_Halves ==
    \A e \in Events("split") :
        /\ Entries(e.lo) = Entries(SubSeq(e.was, 1, Len(e.was) \div 2))
        /\ Entries(e.hi) = Entries(SubSeq(e.was, Len(e.was) \div 2 + 1, Len(e.was)))
        /\ OneSeparator(e.up, e.lo_id, e.lo)
        /\ OneSeparator(e.up, e.hi_id, e.hi)

\* the events of one kind in the order they happened
RECURSIVE Only(_, _)
Only(log, evs) ==
    IF log = <<>> THEN <<>>
    ELSE IF Head(log).ev \in evs THEN <<Head(log)>> \o Only(Tail(log), evs)
    ELSE Only(Tail(log), evs)

RECURSIVE Reversed(_)
Reversed(q) == IF q = <<>> THEN <<>> ELSE Reversed(Tail(q)) \o <<Head(q)>>

Ids(q) == [i \in DOMAIN q |-> q[i].id]

\* the pages a descent went through, the leaf last
Descent(log) ==
    Let([down \in {Only(log, {"down"})} |->
        IF down = <<>> THEN <<ROOT>>
        ELSE Append(Ids(down), down[Len(down)].child)])

\* an insert that returned Ok after a put into a leaf that was not empty
PutIntoLeaf ==
    /\ pend.op = "log"
    /\ pend.call = "insert"
    /\ pend.res = "ok"
    /\ Only(pend.log, {"full"}) # <<>>

\* C23: a successful insert into a non-empty leaf examines the leaf and then
\* every page of the descent path from the leaf up to the root, splits each of
\* them exactly when its fullness is above 80%, and flushes once, after the
\* last of these steps
C23_SplitOrder ==
    PutIntoLeaf =>
        Let([steps \in {Only(pend.log, {"full", "split", "flush"})} |->
            /\ Ids(Only(pend.log, {"full"})) = Reversed(Descent(pend.log))
            /\ \A i \in DOMAIN steps :
                  /\ steps[i].ev = "full" =>
                        /\ i < Len(steps)
                        /\ steps[i].full > SPLIT_THRESHOLD
                              <=> /\ steps[i + 1].ev = "split"
                                  /\ steps[i + 1].id = steps[i].id
                  /\ steps[i].ev = "split" =>
                        /\ i > 1
                        /\ steps[i - 1].ev = "full"
                  /\ steps[i].ev = "flush" <=> i = Len(steps)])

\* an insert that split a page below the root and one more page
C23_Witness ==
    /\ PutIntoLeaf
    /\ Len(Only(pend.log, {"split"})) >= 2
    /\ \E i \in DOMAIN pend.log :
          /\ pend.log[i].ev = "full"
          /\ pend.log[i].full > SPLIT_THRESHOLD
          /\ pend.log[i].id # ROOT

Merges ==
    IF pend.op # "log" THEN <<>> ELSE Only(pend.log, {"merge"})

Separators(slots, keep) ==
    {<<slots[i].key, slots[i].page>> : i \in {j \in DOMAIN slots : j \in keep}}

\* the source was below the threshold and the destination is the slot before
\* or after it in the same parent, not empty, below the threshold, and no
\* fuller than the other neighbour when that one qualifies too
MergeChoice(e) ==
    /\ e.src_full < MERGE_THRESHOLD
    /\ e.idx + 1 \in DOMAIN e.before
    /\ e.before[e.idx + 1].page = e.src
    /\ \E i \in DOMAIN e.before :
          /\ i \in {e.idx, e.idx + 2}
          /\ e.before[i].page = e.dst
    /\ \E i \in DOMAIN e.near :
          /\ e.near[i].id = e.dst
          /\ e.near[i].len > 0
          /\ e.near[i].full < MERGE_THRESHOLD
          /\ \A j \in DOMAIN e.near :
                e.near[j].len > 0 /\ e.near[j].full < MERGE_THRESHOLD
                    => e.near[i].full <= e.near[j].full

\* the source is empty and free, and the parent has one separator
\* (dest.max_key -> dest) where it had the separators of source and dest
MergeEffect(e) ==
    /\ e.src_after = <<>>
    /\ \E i \in DOMAIN e.heap : e.heap[i] = e.src
    /\ e.dst_after # <<>>
    /\ Len(e.after) = Len(e.before) - 1
    /\ Separators(e.after, DOMAIN e.after)
         = Separators(e.before, {i \in DOMAIN e.before :
                                   e.before[i].page \notin {e.src, e.dst}})
           \cup {<<e.dst_after[Len(e.dst_after)].key, e.dst>>}

EmptyChildren ==
    {c \in UNION {Children(id) : id \in Reachable} :
        c # ROOT /\ len(PageOf(c)) = 0}

\* C25: after a completed remove no page other than the root is both empty
\* and referenced by a slot of a page reachable from the root
C25_NoEmptyChild ==
    Returned("remove") => EmptyChildren = {}

\* a remove that emptied a leaf below the root
C25_Witness ==
    /\ Returned("remove")
    /\ last.held
    /\ Grown
    /\ EmptyChildren = {}
    /\ \E id \in 2..Len(disk) : len(PageOf(id)) = 0

\* ------------------------------------------------------------------------
\* A store that outgrows the cache: ascending inserts of entries that fill
\* half a page each, then calls on the last leaf, then lookups in key order.
\* `pend` carries the recency order of the cache from call to call.
\* ------------------------------------------------------------------------
MaxFill == 40
MaxTail == 3

FillKey(n) == <<10 + n>>
FillVal == Pad(7, 28)
TailKeys == {FillKey(MaxFill), FillKey(MaxFill + 1)}

Filled == Cardinality(DOMAIN model \cap {FillKey(n) : n \in 1..MaxFill})
Scanned == IF pend.op = "lru" THEN pend.scan ELSE 0

StLru == [St EXCEPT !.lru = IF pend.op = "lru" THEN pend.order ELSE <<>>]

Kept(s, scan) ==
    pend' = [op |-> "lru", order |-> s.lru, log |-> Only(s.log, {"evict"}),
             scan |-> scan]

FillInsert ==
    /\ Running
    /\ Filled < MaxFill
    /\ \E k \in {FillKey(Filled + 1)} : \E s \in {insert(StLru, k, FillVal)} :
          /\ Becomes(s)
          /\ last' = [Call("insert", k, s) EXCEPT !.size = Len(k) + Len(FillVal)]
          /\ model' = IF s.res = "ok" THEN (k :> FillVal) @@ model ELSE model
          /\ Kept(s, 0)
    /\ ops' = ops + 1
    /\ UNCHANGED hist

TailInsert(k, v) ==
    /\ Running
    /\ Filled = MaxFill
    /\ Scanned = 0
    /\ ops < MaxFill + MaxTail
    /\ \E s \in {insert(StLru, k, v)} :
          /\ Becomes(s)
          /\ last' = [Call("insert", k, s) EXCEPT !.size = Len(k) + Len(v)]
          /\ model' = IF s.res = "ok" THEN (k :> v) @@ model ELSE model
          /\ Kept(s, 0)
    /\ hist' = "mixed"
    /\ ops' = ops + 1

TailRemove(k) ==
    /\ Running
    /\ Filled = MaxFill
    /\ Scanned = 0
    /\ ops < MaxFill + MaxTail
    /\ \E s \in {remove(StLru, k)} :
          /\ Becomes(s)
          /\ last' = Call("remove", k, s)
          /\ model' = IF s.res = "ok"
                      THEN [x \in DOMAIN model \ {k} |-> model[x]] ELSE model
          /\ Kept(s, 0)
    /\ hist' = "mixed"
    /\ ops' = ops + 1

ScanLookup ==
    /\ Running
    /\ Filled = MaxFill
    /\ Scanned < MaxFill
    /\ \E k \in {FillKey(Scanned + 1)} : \E s \in {lookup(StLru, k)} :
          /\ Becomes(s)
          /\ last' = IF s.res = "ok" THEN last ELSE Call("lookup", k, s)
          /\ Kept(s, Scanned + 1)
    /\ UNCHANGED <<model, hist, ops>>

NextEvict ==
    \/ FillInsert
    \/ \E k \in TailKeys : TailInsert(k, <<1>>)
    \/ \E k \in TailKeys : TailRemove(k)
    \/ ScanLookup

SpecEvict == Init /\ [][NextEvict]_vars

Evictions ==
    IF pend.op # "lru" THEN {}
    ELSE {pend.log[i] : i \in DOMAIN pend.log}

\* C26: no page load drops a page from the cache while the id of the page is
\* in the dirty set
C26_Pinned ==
    \A e \in Evictions : ~e.dirty

Flushes ==
    IF pend.op # "log" THEN {} ELSE Events("flush")

\* C27: the id of every cached page that differs from its image in the file
\* is in the dirty set, and a flush writes the cached content of every dirty
\* page at the offset of that page and leaves the dirty set empty
C27_Dirty ==
    /\ \A id \in DOMAIN cache : cache[id] # disk[id] => id \in dirty
    /\ \A e \in Flushes :
          /\ e.left = {}
          /\ DOMAIN e.disk = e.dirty
          /\ \A id \in DOMAIN e.was :
                /\ e.disk[id] = e.was[id]
                /\ e.disk[id].id = id

\* a flush that wrote three pages or more
C27_Witness ==
    \E e \in Flushes : Cardinality(DOMAIN e.was) >= 3

\* ------------------------------------------------------------------------
\* Calls that keep a page guard while they ask for the next page
\* ------------------------------------------------------------------------
MaxBorrowOps == 4

LoggedAbove(k) ==
    /\ Running
    /\ \E s \in {above(St, k)} :
          /\ Becomes(s)
          /\ last' = IF s.res = "ok" THEN last ELSE Call("above", k, s)
          /\ Logged("above", k, s)
    /\ UNCHANGED <<model, hist, ops>>

LoggedDump ==
    /\ Running
    /\ \E s \in {dump(St)} :
          /\ Becomes(s)
          /\ last' = IF s.res = "ok" THEN last ELSE Call("dump", NoKey, s)
          /\ Logged("dump", NoKey, s)
    /\ UNCHANGED <<model, hist, ops>>

BorrowReopen ==
    /\ ops < MaxBorrowOps
    /\ Reopen

NextBorrow ==
    \/ \E k \in Keys, v \in Vals : LoggedInsert(k, v, MaxBorrowOps)
    \/ BorrowReopen
    \/ \E k \in Keys : LoggedAbove(k)
    \/ LoggedDump

SpecBorrow == Init /\ [][NextBorrow]_vars

\* C28: no call asks for a page while it holds the guard of another page, so
\* that no call waits for the cache write lock behind a guard of its own
C28_DropThenReacquire ==
    /\ \A e \in Events("page") : e.held = {}
    /\ last.res # "blocked"

\* C29: next_id returns the smallest id of the free heap when the heap is not
\* empty and leaves the length of the file as it is; when the heap is empty it
\* appends one page to the file and returns the next integer id; either way
\* the page at the returned id is empty and carries the returned id
C29_NextId ==
    \A e \in Events("next_id") :
        /\ e.res = "ok"
        /\ IF e.heap # <<>>
           THEN /\ \E i \in DOMAIN e.heap : e.heap[i] = e.ret
                /\ \A i \in DOMAIN e.heap : e.ret <= e.heap[i]
                /\ Len(e.left) = Len(e.heap) - 1
                /\ e.grown = e.pages
           ELSE /\ e.grown = e.pages + 1
                /\ e.ret = e.pages + 1
                /\ e.left = <<>>
        /\ e.page # <<>>
        /\ e.page.slots = <<>>
        /\ e.page.id = e.ret
        /\ e.page.cap = PageBytes

\* a split whose next_id found two ids or more in the heap, returned one of
\* them and appended nothing
C29_Witness ==
    \E e \in Events("next_id") :
        /\ Len(e.heap) >= 2
        /\ e.res = "ok"
        /\ e.grown = e.pages
        /\ Len(e.left) = Len(e.heap) - 1

\* C30: no id of the free heap is reachable from the root or is twice in the
\* heap, next_id returns no id that is reachable from the root, and it
\* returns no id a second time unless free_id was called on the id in between
C30_FreeIds ==
    /\ \A i \in DOMAIN empty :
          /\ empty[i] \notin Reachable
          /\ \A j \in DOMAIN empty : empty[i] = empty[j] => i = j
    /\ \A e \in Events("next_id") : ~e.used
    /\ pend.op = "log" => ~pend.again

\* ------------------------------------------------------------------------
\* One LruCache on its own: put, get, get_mut, del, lock and free called on
\* a cache of capacity 1 or 2.  `pend` holds the cache, the call made last,
\* the cache that call found, and the keys in the order of their latest put
\* or successful get or get_mut, before the call (used) and after it (order).
\* ------------------------------------------------------------------------
MaxCacheOps == 5
CacheKeys == {1, 2, 3}
CacheCaps == {1, 2}

\* LruCache::new; `gone` is the key the latest evict removed
lc_new(size) ==
    [map |-> <<>>, lru |-> <<>>, locks |-> {}, cap |-> size, op |-> 0,
     gone |-> None]

lc_len(c) == Cardinality(DOMAIN c.map)

\* an lru that does not look at the locks
lc_lru_any(c) ==
    IF lc_len(c) < c.cap \/ DOMAIN c.lru = {} THEN None
    ELSE CHOOSE k \in DOMAIN c.lru : \A j \in DOMAIN c.lru : c.lru[k] <= c.lru[j]

\* an lru that takes the most recent stamp
lc_lru_newest(c) ==
    IF lc_len(c) < c.cap \/ DOMAIN c.lru \ c.locks = {} THEN None
    ELSE CHOOSE k \in DOMAIN c.lru \ c.locks :
             \A j \in DOMAIN c.lru \ c.locks : c.lru[k] >= c.lru[j]

\* LruCache::lru
lc_lru(c) ==
    IF lc_len(c) < c.cap \/ DOMAIN c.lru \ c.locks = {} THEN None
    ELSE CHOOSE k \in DOMAIN c.lru \ c.locks :
             \A j \in DOMAIN c.lru \ c.locks : c.lru[k] <= c.lru[j]

\* LruCache::evict
lc_evict(c) ==
    Let([k \in {lc_lru(c)} |->
        IF k = None THEN [c EXCEPT !.gone = None]
        ELSE [c EXCEPT !.map = [x \in DOMAIN @ \ {k} |-> @[x]],
                       !.lru = [x \in DOMAIN @ \ {k} |-> @[x]],
                       !.gone = k]])

\* LruCache::op and the stamp it gives the key
lc_stamp(c, k) == [c EXCEPT !.op = @ + 1, !.lru = (k :> (c.op + 1)) @@ @]

lc_has(c, k) == k \in DOMAIN c.map

lc_get(c, k) == IF ~lc_has(c, k) THEN c ELSE lc_stamp(c, k)

lc_get_mut(c, k) == IF ~lc_has(c, k) THEN c ELSE lc_stamp(c, k)

lc_put(c, k, v) ==
    Let([c1 \in {lc_evict(c)} |->
    Let([c2 \in {lc_stamp(c1, k)} |->
        [c2 EXCEPT !.map = (k :> v) @@ @]])])

lc_del(c, k) ==
    [c EXCEPT !.lru = [x \in DOMAIN @ \ {k} |-> @[x]],
              !.map = [x \in DOMAIN @ \ {k} |-> @[x]]]

lc_lock(c, k) == [c EXCEPT !.locks = @ \cup {k}]

lc_free(c, k) == [c EXCEPT !.locks = @ \ {k}]

InitCache ==
    /\ \E s \in {make(PageBytes)} :
          /\ cache = s.cache
          /\ disk = s.disk
          /\ dirty = s.dirty
          /\ empty = s.empty
    /\ last = [op |-> "new", key |-> NoKey, res |-> "ok",
               was |-> [x \in AllKeys |-> NoKey], held |-> FALSE, size |-> 0,
               twice |-> FALSE]
    /\ model = <<>>
    /\ hist = "inserts"
    /\ ops = 0
    /\ \E size \in CacheCaps :
          pend = [op |-> "cache", c |-> lc_new(size), call |-> "new", key |-> 0,
                  before |-> lc_new(size), used |-> <<>>, order |-> <<>>]

CacheCall(call, k, c) ==
    /\ ops < MaxCacheOps
    /\ pend' = [op |-> "cache", c |-> c, call |-> call, key |-> k,
                before |-> pend.c, used |-> pend.order,
                order |-> IF \/ call = "put"
                             \/ call \in {"get", "get_mut"} /\ lc_has(pend.c, k)
                          THEN touch(pend.order, k) ELSE pend.order]
    /\ ops' = ops + 1
    /\ UNCHANGED <<cache, disk, dirty, empty, last, model, hist>>

CachePut(k) == \E c \in {lc_put(pend.c, k, 0)} : CacheCall("put", k, c)
CacheGet(k) == \E c \in {lc_get(pend.c, k)} : CacheCall("get", k, c)
CacheGetMut(k) == \E c \in {lc_get_mut(pend.c, k)} : CacheCall("get_mut", k, c)
CacheDel(k) == \E c \in {lc_del(pend.c, k)} : CacheCall("del", k, c)
CacheLock(k) == \E c \in {lc_lock(pend.c, k)} : CacheCall("lock", k, c)
CacheFree(k) == \E c \in {lc_free(pend.c, k)} : CacheCall("free", k, c)

NextCache ==
    \/ \E k \in CacheKeys : CachePut(k)
    \/ \E k \in CacheKeys : CacheGet(k)
    \/ \E k \in CacheKeys : CacheGetMut(k)
    \/ \E k \in CacheKeys : CacheDel(k)
    \/ \E k \in CacheKeys : CacheLock(k)
    \/ \E k \in CacheKeys : CacheFree(k)

SpecCache == InitCache /\ [][NextCache]_vars

\* the entries of the cache the latest call found, and those among them
\* that were pinned
Before == DOMAIN pend.before.map
Pinned == DOMAIN pend.before.map \cap pend.before.locks
Now == DOMAIN pend.c.map

\* C31: no call but del takes a pinned entry out of the cache: a put that
\* evicts, evicts an entry that is not pinned, and a put of a new key into a
\* cache at capacity whose entries are all pinned evicts nothing and leaves
\* the cache with more entries than its capacity
C31_NeverEvictsPinned ==
    /\ pend.call # "del" => Pinned \subseteq Now
    /\ pend.call = "put" =>
          /\ pend.c.gone # None => pend.c.gone \in Before \ Pinned
          /\ (/\ Cardinality(Before) >= pend.c.cap
              /\ Before \subseteq Pinned
              /\ pend.key \notin Before)
             => /\ pend.c.gone = None
                /\ Now = Before \cup {pend.key}
                /\ Cardinality(Now) > pend.c.cap

\* a put of a new key into a cache of capacity 2 with both entries pinned,
\* and the cache holds three entries after it
C31_Witness ==
    /\ pend.call = "put"
    /\ pend.c.cap = 2
    /\ Cardinality(Before) = 2
    /\ Before \subseteq Pinned
    /\ Cardinality(Now) = 3
\* the place of key k in the order of latest accesses the call found
UsedAt(k) == CHOOSE i \in DOMAIN pend.used : pend.used[i] = k

\* C32: a put into a cache that holds cap entries evicts exactly one entry,
\* the entry not pinned whose latest put, get or get_mut is the oldest; a put
\* into a cache below capacity evicts nothing; and a cache none of whose
\* entries is pinned holds no more than cap entries
C32_LruPut ==
    /\ (pend.call = "put" /\ Cardinality(Before) = pend.c.cap
            /\ Before \ Pinned # {})
          => /\ pend.c.gone \in Before \ Pinned
             /\ \A j \in Before \ Pinned : UsedAt(pend.c.gone) <= UsedAt(j)
             /\ Before \ Now \subseteq {pend.c.gone}
             /\ pend.c.gone # pend.key => pend.c.gone \notin Now
    /\ (pend.call = "put" /\ Cardinality(Before) < pend.c.cap)
          => /\ pend.c.gone = None
             /\ Before \subseteq Now
    /\ Now \cap pend.c.locks = {} => Cardinality(Now) <= pend.c.cap
\* the ids from 2 up of the pages of the file that have no slot
EmptyOnDisk == {id \in 2..Len(disk) : len(disk[id]) = 0}

\* C33: right after File::open the free heap holds exactly the ids from 2 up
\* of the pages of the file that have no slot, each once, and when there is
\* one, next_id returns the smallest of them and the file does not grow
C33_OpenScan ==
    last.op = "open" =>
        /\ {empty[i] : i \in DOMAIN empty} = EmptyOnDisk
        /\ Len(empty) = Cardinality(EmptyOnDisk)
        /\ EmptyOnDisk # {} =>
              /\ next_id(St).res = "ok"
              /\ next_id(St).ret \in EmptyOnDisk
              /\ \A id \in EmptyOnDisk : next_id(St).ret <= id
              /\ Len(next_id(St).disk) = Len(disk)

\* an open of a file whose last page has no slot and which has a page with
\* entries besides the root
C33_Witness ==
    /\ last.op = "open"
    /\ \E id \in EmptyOnDisk : id = Len(disk)
    /\ \E id \in 2..Len(disk) : id \notin EmptyOnDisk
\* the bytes the entry of key k takes in page p, its slot included
EntryBytes(p, k) ==
    SLOT + Len(k) + Len(val(p, find(p, k)))

\* C34: put_val or put_ref of a key the page holds succeeds whenever the new
\* entry fits in the page once the old entry is taken out, and a call that
\* returns None leaves the page as it was
C34_ReplaceFits ==
    [][Upserts =>
          /\ free(cache[ROOT]) + EntryBytes(cache[ROOT], last'.key)
                  >= last'.size + SLOT
                 => last'.res = "ok"
          /\ last'.res = "none" => cache'[ROOT] = cache[ROOT]]_vars
\* the indices of page p whose key is k, and those whose key is k or more
At(p, k) == {i \in 0..(len(p) - 1) : key(p, i) = k}
From(p, k) == {i \in 0..(len(p) - 1) : ge(key(p, i), k)}

\* C35: on every page put_val, put_ref and remove lead to, and for every
\* probe key, find returns an index exactly when a slot holds the key, and
\* then the index of that slot; ceil returns the smallest index whose key is
\* the probe or more, and None exactly when the page is empty or the probe
\* is above max()
C35_FindCeil ==
    \A k \in Probes :
        /\ find(cache[ROOT], k) # None <=> At(cache[ROOT], k) # {}
        /\ find(cache[ROOT], k) # None => find(cache[ROOT], k) \in At(cache[ROOT], k)
        /\ From(cache[ROOT], k) # {} =>
              /\ ceil(cache[ROOT], k) \in From(cache[ROOT], k)
              /\ \A i \in From(cache[ROOT], k) : ceil(cache[ROOT], k) <= i
        /\ ceil(cache[ROOT], k) = None <=>
              (len(cache[ROOT]) = 0 \/ gt(k, block_max(cache[ROOT])))

\* a page of four entries after a put: a probe between two of its keys has
\* its ceil inside the page, a probe above max() has none, and find tells a
\* stored key from a probe that is not stored
C35_Witness ==
    /\ last.op \in {"put_val", "put_ref"}
    /\ len(cache[ROOT]) = 4
    /\ ceil(cache[ROOT], <<3>>) \in 1..3
    /\ key(cache[ROOT], ceil(cache[ROOT], <<3>>)) # <<3>>
    /\ ceil(cache[ROOT], <<9>>) = None
    /\ find(cache[ROOT], <<3>>) = None
    /\ find(cache[ROOT], <<4>>) # None

\* the bytes the entries of a directory take, 16 for the slot of each
RECURSIVE EntrySum(_)
EntrySum(slots) ==
    IF slots = <<>> THEN 0
    ELSE SLOT + Len(Head(slots).key) + Len(Head(slots).val) + EntrySum(Tail(slots))

\* the step is a put_val, put_ref or remove on the page
BlockStep == ops' = ops + 1

\* the step is a put_val of a key the page did not hold, and it returned Some
PutNew == BlockStep /\ last'.op = "put_val" /\ ~last'.held /\ last'.res = "ok"

\* C36: after every put_val, put_ref and remove free() is the capacity less
\* 16 less the bytes of the stored entries (16 + key + value each), and
\* after a put_val of a new key, remove of that key gives a page whose
\* free() is what it was before the put
C36_FreeBytes ==
    [][BlockStep =>
          /\ free(cache'[ROOT])
                 = cache'[ROOT].cap - HEAD - EntrySum(cache'[ROOT].slots)
          /\ PutNew =>
                free(block_remove(cache'[ROOT], find(cache'[ROOT], last'.key)))
                    = free(cache[ROOT])]_vars
\* C37: after any sequence of put_val, put_ref, remove and clear the slot
\* directory ends at or before the lowest payload offset (lo <= hi in free),
\* and full() is between 0 and 100
C37_Room ==
    /\ HEAD + len(cache[ROOT]) * SLOT
          <= min_offset(cache[ROOT].slots, cache[ROOT].cap)
    /\ free(cache[ROOT]) >= 0
    /\ full(cache[ROOT]) \in 0..100

\* a put that left fewer bytes free than one slot takes
C37_Witness ==
    /\ last.op \in {"put_val", "put_ref"} /\ last.res = "ok"
    /\ len(cache[ROOT]) >= 3
    /\ free(cache[ROOT]) < SLOT
\* the keys of every slot of the pages of the subtree of page id
KeysUnder(id) ==
    UNION {{PageOf(c).slots[i].key : i \in DOMAIN PageOf(c).slots} :
           c \in Closure({id})}

\* the internal pages of the tree
Internal == {id \in Reachable : Refs(id) # {}}

\* C38 as stated: for every internal page P of the tree, every key reachable
\* through a child of P is at most P.max() and at least P.min()
C38_Between ==
    \A id \in Internal : \A i \in Refs(id) :
        \A k \in KeysUnder(PageOf(id).slots[i].page) :
            /\ ~gt(k, block_max(PageOf(id)))
            /\ ~lt(k, block_min(PageOf(id)))

\* C38 amended: for every internal page P of the tree, every key reachable
\* through a child of P is at most P.max(), and every key reachable through
\* a child other than the first is at least P.min()
C38_Containment ==
    \A id \in Internal : \A i \in Refs(id) :
        \A k \in KeysUnder(PageOf(id).slots[i].page) :
            /\ ~gt(k, block_max(PageOf(id)))
            /\ i > 1 => ~lt(k, block_min(PageOf(id)))

\* an internal page with two children or more whose first child holds a key
\* below P.min()
C38_Witness ==
    \E id \in Internal :
        /\ Cardinality(Refs(id)) >= 2
        /\ \E k \in KeysUnder(PageOf(id).slots[1].page) :
              lt(k, block_min(PageOf(id)))
        /\ \E k \in KeysUnder(PageOf(id).slots[2].page) :
              gt(k, block_min(PageOf(id)))
\* ------------------------------------------------------------------------
\* Calls on a File opened from a file whose child pointers may form a cycle
\* ------------------------------------------------------------------------
MaxCycleOps == 3
CycleKeys == {<<2>>, <<4>>, <<9>>}
CyclePages == 1..3

\* pages of a file written by something else than a File: File::open reads
\* the root as it finds it and checks no pointer
Fork(id, a, b) == put_ref(put_ref(create(id, PageBytes), <<2>>, a), <<4>>, b)
Stem(id, a) == put_ref(create(id, PageBytes), <<4>>, a)
Leaf(id, k) == put_val(create(id, PageBytes), k, <<1>>)

CycleDisks ==
    {<<Fork(1, a, b), p2, p3>> :
        a \in CyclePages, b \in CyclePages,
        p2 \in {Leaf(2, <<2>>)} \cup {Fork(2, c, d) : c \in CyclePages, d \in {1, 3}},
        p3 \in {Leaf(3, <<4>>)} \cup {Stem(3, e) : e \in CyclePages}}

\* the pages a descent for key k goes through from page id, n at most, by
\* the pointers as they are before the call: insert follows the last slot
\* for a key above every key of a page, lookup and remove stop there
RECURSIVE Trail(_, _, _, _)
Trail(id, k, ins, n) ==
    IF n = 0 THEN <<>>
    ELSE Let([p \in {PageOf(id)} |->
         Let([idx \in {IF len(p) = 0 THEN None
                       ELSE IF ins THEN insert_idx(p, k) ELSE ceil(p, k)} |->
            <<id>> \o (IF idx = None \/ slot_page(p, idx) = 0 THEN <<>>
                       ELSE Trail(slot_page(p, idx), k, ins, n - 1))])])

\* one page more than the file has
MaxTrail == 4

\* a trail that comes back to a page
Turns(trail) == \E i, j \in DOMAIN trail : i < j /\ trail[i] = trail[j]

InitCycle ==
    /\ \E image \in CycleDisks : \E s \in {open(image)} :
          /\ cache = s.cache
          /\ disk = s.disk
          /\ dirty = s.dirty
          /\ empty = s.empty
    /\ last = [op |-> "open", key |-> NoKey, res |-> "ok",
               was |-> [x \in AllKeys |-> NoKey], held |-> FALSE, size |-> 0,
               twice |-> FALSE]
    /\ model = <<>>
    /\ hist = "mixed"
    /\ ops = 0
    /\ pend = [op |-> "cycle", trail |-> <<>>, met |-> {}]

\* a call on such a File: an Err is returned to the caller, who may call
\* again; pend keeps the trail of the call and the calls that have met a
\* cycle so far
CycleCall(op, k, s) ==
    /\ last.res # "panic"
    /\ ops < MaxCycleOps
    /\ Becomes(s)
    /\ last' = Call(op, k, s)
    /\ pend' = [op |-> "cycle",
                trail |-> Trail(ROOT, k, op = "insert", MaxTrail),
                met |-> pend.met \cup (IF s.res = "Cyclic reference detected"
                                       THEN {op} ELSE {})]
    /\ ops' = ops + 1
    /\ UNCHANGED <<model, hist>>

CycleLookup(k) == \E s \in {lookup(St, k)} : CycleCall("lookup", k, s)
CycleInsert(k, v) ==
    \E r \in {insert(St, k, v)} : \E s \in builds(r) : CycleCall("insert", k, s)
CycleRemove(k) == \E s \in {remove(St, k)} : CycleCall("remove", k, s)

NextCycle ==
    \/ \E k \in CycleKeys : CycleLookup(k)
    \/ \E k \in CycleKeys : CycleInsert(k, <<1>>)
    \/ \E k \in CycleKeys : CycleRemove(k)

SpecCycle == InitCycle /\ [][NextCycle]_vars

\* C39: a lookup, insert or remove whose descent comes back to a page it has
\* visited ends, and returns the error "Cyclic reference detected"
C39_CycleDetected ==
    (last.op \in {"lookup", "insert", "remove"} /\ Turns(pend.trail))
        => last.res = "Cyclic reference detected"

\* lookup, insert and remove have each met a cycle, the last call on a
\* cycle through three pages
C39_Witness ==
    /\ pend.met = {"lookup", "insert", "remove"}
    /\ Turns(pend.trail)
    /\ Len(pend.trail) = MaxTrail
    /\ last.res = "Cyclic reference detected"
\* ------------------------------------------------------------------------
\* Calls whose flush meets a write error
\* ------------------------------------------------------------------------
MaxIoOps == 4

\* the pages whose write fails during a call: none, or one page
IoFaults == {{}} \cup {{id} : id \in 1..3}

IoInsert(k, v, bad) ==
    /\ Running
    /\ ops < MaxIoOps
    /\ \E r \in {insert([St EXCEPT !.io = bad], k, v)} : \E s \in builds(r) :
          /\ Becomes(s)
          /\ last' = [Call("insert", k, s) EXCEPT !.size = Len(k) + Len(v)]
          /\ model' = IF s.res = "ok" THEN (k :> v) @@ model ELSE model
          /\ Logged("insert", k, s)
    /\ hist' = "mixed"
    /\ ops' = ops + 1

IoRemove(k, bad) ==
    /\ Running
    /\ ops < MaxIoOps
    /\ \E s \in {remove([St EXCEPT !.io = bad], k)} :
          /\ Becomes(s)
          /\ last' = Call("remove", k, s)
          /\ model' = IF s.res = "ok"
                      THEN [x \in DOMAIN model \ {k} |-> model[x]] ELSE model
          /\ Logged("remove", k, s)
    /\ hist' = "mixed"
    /\ ops' = ops + 1

NextIo ==
    \/ \E k \in MergeKeys, v \in MergeVals, bad \in IoFaults : IoInsert(k, v, bad)
    \/ \E k \in MergeKeys, bad \in IoFaults : IoRemove(k, bad)

SpecIo == Init /\ [][NextIo]_vars

\* the pages a flush was to write and did not: dirty when it began, and not
\* in the file as the cache held them
Unwritten(e) ==
    {id \in DOMAIN e.was \cap DOMAIN e.disk : e.disk[id] # e.was[id]}

\* C40: after a call whose flush failed on a write error, the ids of the
\* dirty pages the flush did not write are in the dirty set
C40_DirtyKept ==
    (pend.op = "log" /\ pend.res = "IO")
        => \A e \in Events("flush") : Unwritten(e) \subseteq dirty
====
